---- MODULE Spec2Model ----
(***************************************************************************)
(* Planner_AI: energy-aware durable job queue.                             *)
(*                                                                         *)
(*   storage/durable_queue.py   DurableQueue (PostgreSQL queue_items)      *)
(*   api/workers.py             _durable_queue_worker, _stale_recovery_... *)
(*   energy/policy.py           EnergyPolicy                               *)
(*                                                                         *)
(* The stored procedures dequeue_item, complete_item, fail_item and        *)
(* recover_stale_items live in storage/schema.sql, which is not part of    *)
(* the source tree at hand; they are modelled from the specification       *)
(* (spec.md section 4.2) and say so where they are defined.                *)
(*                                                                         *)
(* Representation.  The program reads a timestamp column in one way only:  *)
(* it compares it with NOW() minus an interval.  A timestamp is therefore  *)
(* kept as "NULL", "recent" (not yet older than the interval it is         *)
(* compared with) or "old" (older), and the passing of time turns recent   *)
(* timestamps into old ones.  Prices are in euro cents (0.70 EUR = 70).    *)
(***************************************************************************)
EXTENDS Integers, FiniteSets, Sequences, TLC

\* ---------------------------------------------------------------- bounds
NumWorkers == 2
MaxJobs == 2
MaxAttemptsBound == 2
MaxRetries == 1

\* ------------------------------------------------------ program constants
\* recover_stale(timeout_minutes=5)
timeout_minutes == 5
\* EnergyPolicy.price_threshold_eur = 0.70, in cents
price_threshold_eur == 70
\* EnergyPolicy.fail_open = True
fail_open == TRUE
\* DurableQueue.enqueue(..., max_attempts: int = 3)
default_max_attempts == 3

\* ------------------------------------------------------------ null values
\* NULL in a numeric column or Optional number, and in a text column
NULL == -1
NoText == "NULL"
NoId == NULL
NoWorker == NULL
NoPrice == NULL
NoResult == NULL
NoTime == NoText

Workers == 1..NumWorkers
JobIds == 1..MaxJobs
Errors == {"e1"}
TimeoutError == "timeout"
\* a payload on which the external processor raises at every invocation
Poison == "poison"
Payloads == {"note", Poison}

\* ----------------------------------------------------------- EnergyStatus
\* Optional[EnergyStatus]: present = FALSE is Python's None
EnergyStatus(p, s) == [present |-> TRUE, electricity_price_eur |-> p, solar_available |-> s]
NoStatus == [present |-> FALSE, electricity_price_eur |-> NoPrice, solar_available |-> "None"]
\* the signal values the running system is driven with
SignalValues ==
  {NoStatus, EnergyStatus(90, "False"), EnergyStatus(90, "True")}

\* ----------------------------------------------------------- EnergyPolicy
\* should_process_now that also passes a price equal to the threshold
should_process_now_AtThreshold(threshold, failopen, status) ==
  IF ~status.present THEN failopen
  ELSE IF status.solar_available = "True" THEN TRUE
  ELSE IF status.electricity_price_eur = NoPrice THEN failopen
  ELSE status.electricity_price_eur <= threshold

should_process_now(threshold, failopen, status) ==
  IF ~status.present THEN failopen
  ELSE IF status.solar_available = "True" THEN TRUE
  ELSE IF status.electricity_price_eur = NoPrice THEN failopen
  ELSE status.electricity_price_eur < threshold

\* llm_tier that answers 'large' for every status there is
llm_tier_AnyStatus(status) ==
  IF status.present THEN "large" ELSE "small"

llm_tier(status) ==
  IF status.present /\ status.solar_available = "True" THEN "large" ELSE "small"

\* the policy object: api/dependencies.py builds it from the environment
EnergyPolicy(threshold, failopen) == [price_threshold_eur |-> threshold, fail_open |-> failopen]

\* GET /queue: process_now, llm_tier and the serialized status
NoReply == [sent |-> FALSE, process_now |-> FALSE, llm_tier |-> NoText, energy |-> NoStatus]
queue_status_reply(pol, st) ==
  [sent |-> TRUE,
   process_now |-> should_process_now(pol.price_threshold_eur, pol.fail_open, st),
   llm_tier |-> llm_tier(st),
   energy |-> st]

\* POST /notes (submit_notes): where the request stands, what it was given,
\* the one status it fetched, what it has done and what it answered.
\* rows_before is the set of job ids that existed when the request came in.
NoRequest ==
  [pc |-> "idle", notes |-> NoText, status |-> NoStatus, llm_tier |-> NoText,
   fetched |-> 0, invoked |-> 0, response |-> NoText, queue_item_id |-> NoId,
   rows_before |-> {}]

\* ------------------------------------------------- external processor
\* _process_notes(notes, llm_tier) when it returns: an opaque result
Results == {1, 2}
process_notes(notes, tier) == IF tier = "large" THEN 2 ELSE 1

\* ================================================================ state
VARIABLES
  queue_items,   \* the queue_items table: job id -> row
  next_id,       \* number of rows inserted so far (ids are never reused)
  row_lock,      \* worker -> id of the row its in-flight dequeue_item holds FOR UPDATE
  energy,        \* what the energy status endpoint answers at the moment
  pc,            \* worker -> position in _durable_queue_worker
  item,          \* worker -> DequeueResult it is processing
  status,        \* worker -> energy status fetched in this iteration
  claims,        \* job id -> dequeues that returned it since enqueue / retry reset
  retries,       \* number of successful retry_dead_item calls so far
  policy,        \* the EnergyPolicy the process was configured with
  reply,         \* what GET /queue answered last
  gate,          \* the POST /notes request in flight, or the last one answered
  sweeper        \* position of _stale_recovery_worker in its loop

vars == <<queue_items, next_id, row_lock, energy, pc, item, status, claims, retries,
          policy, reply, gate, sweeper>>

Ids == DOMAIN queue_items
WithStatus(st) == {j \in Ids : queue_items[j].status = st}
Locked == {row_lock[w] : w \in Workers} \ {NoId}

\* ------------------------------------------------ storage/schema.sql
\* INSERT INTO queue_items (...): column defaults of a fresh row
NewRow(notes, energy_price_eur, solar_available, tier, max_attempts, seq) ==
  [status |-> "pending", attempts |-> 0, max_attempts |-> max_attempts,
   last_error |-> NoText, notes |-> notes, created_at |-> seq,
   submitted_energy_price_eur |-> energy_price_eur,
   submitted_solar_available |-> solar_available,
   submitted_llm_tier |-> tier,
   processing_started_at |-> NoTime, completed_at |-> NoTime,
   worker_id |-> NoWorker, result |-> NoResult,
   processed_energy_price_eur |-> NoPrice, processed_solar_available |-> "None",
   processed_llm_tier |-> NoText]

\* a dequeue_item that orders by created_at DESC
SelectForUpdateSkipLocked_Newest(table, locked) ==
  LET cand == {j \in DOMAIN table : table[j].status = "pending" /\ j \notin locked}
  IN IF cand = {} THEN NoId
     ELSE CHOOSE j \in cand : \A k \in cand : table[j].created_at >= table[k].created_at

\* a selection that does not skip the rows locked by other claims
SelectForUpdateSkipLocked_NoSkip(table, locked) ==
  LET cand == {j \in DOMAIN table : table[j].status = "pending"}
  IN IF cand = {} THEN NoId
     ELSE CHOOSE j \in cand : \A k \in cand : table[j].created_at <= table[k].created_at

\* dequeue_item, first half: SELECT ... WHERE status = 'pending'
\* ORDER BY created_at LIMIT 1 FOR UPDATE SKIP LOCKED
SelectForUpdateSkipLocked(table, locked) ==
  LET cand == {j \in DOMAIN table : table[j].status = "pending" /\ j \notin locked}
  IN IF cand = {} THEN NoId
     ELSE CHOOSE j \in cand : \A k \in cand : table[j].created_at <= table[k].created_at

\* dequeue_item, second half: UPDATE of the locked row
dequeue_item(table, j, worker) ==
  [table EXCEPT ![j] = [@ EXCEPT !.status = "processing",
                                 !.attempts = @ + 1,
                                 !.processing_started_at = "recent",
                                 !.worker_id = worker]]

\* complete_item: only a row in 'processing' is touched
complete_item_ok(table, j) == j \in DOMAIN table /\ table[j].status = "processing"

complete_item(table, j, result, price, solar, tier) ==
  IF complete_item_ok(table, j)
  THEN [table EXCEPT ![j] = [@ EXCEPT !.status = "completed",
                                      !.result = result,
                                      !.processed_energy_price_eur = price,
                                      !.processed_solar_available = solar,
                                      !.processed_llm_tier = tier,
                                      !.completed_at = "recent",
                                      !.processing_started_at = NoTime,
                                      !.worker_id = NoWorker]]
  ELSE table

\* the pending/dead decision shared by fail_item and recover_stale_items
RetryOrDead_AlwaysPending(row, error) ==
  [row EXCEPT !.status = "pending",
              !.last_error = error,
              !.processing_started_at = NoTime,
              !.worker_id = NoWorker]

RetryOrDead(row, error) ==
  [row EXCEPT !.status = IF row.attempts < row.max_attempts THEN "pending" ELSE "dead",
              !.last_error = error,
              !.processing_started_at = NoTime,
              !.worker_id = NoWorker]

\* fail_item: only a row in 'processing' is touched
fail_item(table, j, error) ==
  IF j \in DOMAIN table /\ table[j].status = "processing"
  THEN [table EXCEPT ![j] = RetryOrDead(@, error)]
  ELSE table

\* what fail_item returns: the row's status after the call
fail_item_result(table, j, error) ==
  IF j \in DOMAIN table THEN fail_item(table, j, error)[j].status ELSE NoText

\* recover_stale_items: rows in 'processing' with
\* processing_started_at < NOW() - timeout minutes
StaleRows(table, timeout) ==
  {j \in DOMAIN table : table[j].status = "processing"
                        /\ table[j].processing_started_at = "old"}

\* recover_stale_items that takes every row in 'processing', stale or not
recover_stale_items_AllProcessing(table, timeout) ==
  [j \in DOMAIN table |->
     IF table[j].status = "processing" THEN RetryOrDead(table[j], TimeoutError)
     ELSE table[j]]

recover_stale_items(table, timeout) ==
  [j \in DOMAIN table |->
     IF j \in StaleRows(table, timeout) THEN RetryOrDead(table[j], TimeoutError)
     ELSE table[j]]

\* ------------------------------------------- storage/durable_queue.py
BoolText(b) == IF b THEN "True" ELSE "False"

\* what db.fetchrow("SELECT * FROM dequeue_item($1)") hands back: found = FALSE
\* is no record at all, item_id = NoId a record of NULLs
Record(found, table, j) ==
  IF j = NoId THEN [found |-> found, item_id |-> NoId, item_notes |-> NoText]
  ELSE [found |-> TRUE, item_id |-> j, item_notes |-> table[j].notes]

\* DurableQueue.dequeue: the record turned into Optional[DequeueResult]
\* (held = FALSE is None; the attempts and submitted tier it also carries
\* are only logged)
IsNone(it) == ~it.held
None == [held |-> FALSE, id |-> NoId, notes |-> NoText]

\* dequeue without the test of record["item_id"]: a record of NULLs becomes
\* a DequeueResult
dequeue_NoItemIdTest(record) ==
  IF ~record.found THEN None
  ELSE [held |-> TRUE, id |-> record.item_id, notes |-> record.item_notes]

dequeue(record) ==
  IF ~record.found \/ record.item_id = NoId THEN None
  ELSE [held |-> TRUE, id |-> record.item_id, notes |-> record.item_notes]

\* DurableQueue.complete: complete_item with the caller's arguments; the
\* table after the call, and the bool it returns
\* complete that does not pass llm_tier on
complete_DropsTier(table, item_id, result, energy_price_eur, solar_available, tier) ==
  complete_item(table, item_id, result, energy_price_eur, solar_available, NoText)

complete(table, item_id, result, energy_price_eur, solar_available, tier) ==
  complete_item(table, item_id, result, energy_price_eur, solar_available, tier)

\* complete that answers True whatever complete_item said
complete_success_AlwaysTrue(table, item_id) == TRUE

complete_success(table, item_id) == complete_item_ok(table, item_id)

\* a fail that passes on the error the row already has, if it has one
fail_KeepsOlderError(table, item_id, error) ==
  fail_item(table, item_id,
            IF item_id \in DOMAIN table /\ table[item_id].last_error # NoText
            THEN table[item_id].last_error ELSE error)

\* a fail that records the failure and leaves the pending/dead decision to
\* a later statement
fail_LeavesFailedRetryable(table, item_id, error) ==
  IF item_id \in DOMAIN table /\ table[item_id].status = "processing"
  THEN [table EXCEPT ![item_id] = [@ EXCEPT !.status = "failed-retryable",
                                            !.last_error = error]]
  ELSE table

\* a fail that writes 'dead' itself instead of calling fail_item
fail_MarksDead(table, item_id, error) ==
  IF item_id \in DOMAIN table /\ table[item_id].status = "processing"
  THEN [table EXCEPT ![item_id] = [@ EXCEPT !.status = "dead",
                                            !.last_error = error,
                                            !.processing_started_at = NoTime,
                                            !.worker_id = NoWorker]]
  ELSE table

\* DurableQueue.fail: fail_item; the table after the call, and the
\* new_status it returns
fail(table, item_id, error) == fail_item(table, item_id, error)

\* fail that falls off its end without returning new_status
fail_new_status_NoReturn(table, item_id, error) == NoText

fail_new_status(table, item_id, error) == fail_item_result(table, item_id, error)

\* a recover_stale that puts every stale row back to pending itself
recover_stale_AlwaysPending(table, timeout) ==
  [j \in DOMAIN table |->
     IF j \in StaleRows(table, timeout)
     THEN [table[j] EXCEPT !.status = "pending",
                           !.last_error = TimeoutError,
                           !.processing_started_at = NoTime,
                           !.worker_id = NoWorker]
     ELSE table[j]]

\* DurableQueue.recover_stale: recover_stale_items; the table after the
\* call, and the count it returns
recover_stale(table, timeout) == recover_stale_items(table, timeout)

recover_stale_count(table, timeout) == Cardinality(StaleRows(table, timeout))

\* DurableQueue.get_pending_count
get_pending_count(table) ==
  Cardinality({j \in DOMAIN table : table[j].status = "pending"})

\* an enqueue that does not pass llm_tier on to the INSERT
enqueue_DropsTier(table, id, notes, energy_price_eur, solar_available, tier, max_attempts) ==
  [j \in DOMAIN table \cup {id} |->
     IF j = id
     THEN NewRow(notes, energy_price_eur, solar_available, NoText, max_attempts, id)
     ELSE table[j]]

\* DurableQueue.enqueue: the row gets the next id
enqueue(table, id, notes, energy_price_eur, solar_available, tier, max_attempts) ==
  [j \in DOMAIN table \cup {id} |->
     IF j = id
     THEN NewRow(notes, energy_price_eur, solar_available, tier, max_attempts, id)
     ELSE table[j]]

\* a retry_dead_item that answers True whatever the UPDATE reported
retry_dead_item_ok_AlwaysTrue(table, j) == TRUE

\* DurableQueue.retry_dead_item: UPDATE ... WHERE id = $1 AND status = 'dead'
retry_dead_item_ok(table, j) == j \in DOMAIN table /\ table[j].status = "dead"

\* retry_dead_item without the status test: UPDATE ... WHERE id = $1
retry_dead_item_AnyStatus(table, j) ==
  IF j \in DOMAIN table
  THEN [table EXCEPT ![j] = [@ EXCEPT !.status = "pending",
                                      !.attempts = 0,
                                      !.last_error = NoText,
                                      !.processing_started_at = NoTime,
                                      !.worker_id = NoWorker]]
  ELSE table

\* retry_dead_item that leaves attempts as they are
retry_dead_item_KeepsAttempts(table, j) ==
  IF retry_dead_item_ok(table, j)
  THEN [table EXCEPT ![j] = [@ EXCEPT !.status = "pending",
                                      !.last_error = NoText,
                                      !.processing_started_at = NoTime,
                                      !.worker_id = NoWorker]]
  ELSE table

retry_dead_item(table, j) ==
  IF retry_dead_item_ok(table, j)
  THEN [table EXCEPT ![j] = [@ EXCEPT !.status = "pending",
                                      !.attempts = 0,
                                      !.last_error = NoText,
                                      !.processing_started_at = NoTime,
                                      !.worker_id = NoWorker]]
  ELSE table

\* ================================================================ Init
Init ==
  /\ queue_items = <<>>
  /\ next_id = 0
  /\ row_lock = [w \in Workers |-> NoId]
  /\ energy \in SignalValues
  /\ pc = [w \in Workers |-> "poll"]
  /\ item = [w \in Workers |-> None]
  /\ status = [w \in Workers |-> NoStatus]
  /\ claims = [j \in JobIds |-> 0]
  /\ retries = 0
  /\ policy = EnergyPolicy(price_threshold_eur, fail_open)
  /\ reply = NoReply
  /\ gate = NoRequest
  /\ sweeper = "sleep"

\* ---------------------------------------------------------- environment
\* the energy signal changes
EnergyChange ==
  /\ \E s \in SignalValues \ {energy} : energy' = s
  /\ UNCHANGED <<queue_items, next_id, row_lock, pc, item, status, claims, retries,
               policy, reply, gate, sweeper>>

\* time passes: the rows S, in 'processing' since less than the stale
\* timeout, are now in 'processing' since more than that
Tick ==
  /\ \E S \in SUBSET {j \in Ids : queue_items[j].processing_started_at = "recent"} :
        /\ S # {}
        /\ queue_items' = [j \in Ids |->
              IF j \in S THEN [queue_items[j] EXCEPT !.processing_started_at = "old"]
              ELSE queue_items[j]]
  /\ UNCHANGED <<next_id, row_lock, energy, pc, item, status, claims, retries,
               policy, reply, gate, sweeper>>

\* ------------------------------------------------- management surface
\* DurableQueue.enqueue(notes, max_attempts=m): the submitted context is
\* left at its defaults of None
Enqueue(notes, m) ==
  /\ next_id < MaxJobs
  /\ next_id' = next_id + 1
  /\ queue_items' = enqueue(queue_items, next_id + 1, notes, NoPrice, "None", NoText, m)
  /\ UNCHANGED <<row_lock, energy, pc, item, status, claims, retries,
               policy, reply, gate, sweeper>>

\* POST /queue/items/{id}/retry -> DurableQueue.retry_dead_item(j)
RetryDeadItem(j) ==
  /\ retries < MaxRetries
  /\ queue_items' = retry_dead_item(queue_items, j)
  /\ IF retry_dead_item_ok(queue_items, j)
     THEN claims' = [claims EXCEPT ![j] = 0] /\ retries' = retries + 1
     ELSE UNCHANGED <<claims, retries>>
  /\ UNCHANGED <<next_id, row_lock, energy, pc, item, status,
               policy, reply, gate, sweeper>>

\* -------------------------------------------- _stale_recovery_worker
\* a sweeper that, like the queue worker, skips its turn when nothing is
\* pending
SweeperRecover_WhenPending ==
  /\ get_pending_count(queue_items) # 0
  /\ queue_items' = recover_stale(queue_items, timeout_minutes)
  /\ UNCHANGED <<next_id, row_lock, energy, pc, item, status, claims, retries,
                 policy, reply, gate, sweeper>>

\* one sweep: sleep, then recover_stale(timeout_minutes=5)
SweeperRecover ==
  /\ queue_items' = recover_stale(queue_items, timeout_minutes)
  /\ UNCHANGED <<next_id, row_lock, energy, pc, item, status, claims, retries,
               policy, reply, gate, sweeper>>

\* --------------------------------------------- _durable_queue_worker
Goto(w, label) == pc' = [pc EXCEPT ![w] = label]
Restart(w, label) ==
  /\ Goto(w, label)
  /\ item' = [item EXCEPT ![w] = None]
  /\ status' = [status EXCEPT ![w] = NoStatus]

\* asyncio.sleep(QUEUE_POLL_INTERVAL_S) is over
WorkerWake(w) ==
  /\ pc[w] = "sleep"
  /\ Goto(w, "poll")
  /\ UNCHANGED <<queue_items, next_id, row_lock, energy, item, status, claims, retries,
               policy, reply, gate, sweeper>>

\* a worker that goes on whatever the pending count is
WorkerPoll_IgnoresCount(w) ==
  /\ pc[w] = "poll"
  /\ Goto(w, "energy")
  /\ UNCHANGED <<queue_items, next_id, row_lock, energy, item, status, claims, retries,
               policy, reply, gate, sweeper>>

\* pending_count = get_pending_count(); 0 -> sleep
WorkerPoll(w) ==
  /\ pc[w] = "poll"
  /\ Goto(w, IF get_pending_count(queue_items) = 0 THEN "sleep" ELSE "energy")
  /\ UNCHANGED <<queue_items, next_id, row_lock, energy, item, status, claims, retries,
               policy, reply, gate, sweeper>>

\* a worker that leaves its loop when the policy says not now
WorkerEnergy_Break(w) ==
  /\ pc[w] = "energy"
  /\ IF should_process_now(policy.price_threshold_eur, policy.fail_open, energy)
     THEN Goto(w, "dequeue") /\ status' = [status EXCEPT ![w] = energy]
     ELSE Goto(w, "stopped") /\ UNCHANGED status
  /\ UNCHANGED <<queue_items, next_id, row_lock, energy, item, claims, retries,
               policy, reply, gate, sweeper>>

\* status = _get_energy_status(); not should_process_now(status) -> sleep
WorkerEnergy(w) ==
  /\ pc[w] = "energy"
  /\ IF should_process_now(policy.price_threshold_eur, policy.fail_open, energy)
     THEN Goto(w, "dequeue") /\ status' = [status EXCEPT ![w] = energy]
     ELSE Goto(w, "sleep") /\ UNCHANGED status
  /\ UNCHANGED <<queue_items, next_id, row_lock, energy, item, claims, retries,
               policy, reply, gate, sweeper>>

\* a dequeue that waits until no other claim is in flight
WorkerDequeueSelect_Waits(w) ==
  /\ pc[w] = "dequeue"
  /\ Locked = {}
  /\ LET j == SelectForUpdateSkipLocked(queue_items, Locked)
     IN IF j # NoId
        THEN /\ row_lock' = [row_lock EXCEPT ![w] = j]
             /\ Goto(w, "claiming")
             /\ UNCHANGED <<item, status>>
        ELSE /\ Restart(w, "sleep")
             /\ UNCHANGED row_lock
  /\ UNCHANGED <<queue_items, next_id, energy, claims, retries,
               policy, reply, gate, sweeper>>

\* item = dequeue(): dequeue_item locks the oldest unlocked pending row;
\* with none to lock the call returns at once and the worker sleeps
WorkerDequeueSelect(w) ==
  /\ pc[w] = "dequeue"
  /\ LET j == SelectForUpdateSkipLocked(queue_items, Locked)
     IN IF j # NoId
        THEN /\ row_lock' = [row_lock EXCEPT ![w] = j]
             /\ Goto(w, "claiming")
             /\ UNCHANGED <<item, status>>
        ELSE /\ \E found \in BOOLEAN :
                  LET it == dequeue(Record(found, queue_items, NoId))
                  IN IF IsNone(it)
                     THEN Restart(w, "sleep")
                     ELSE /\ item' = [item EXCEPT ![w] = it]
                          /\ Goto(w, "process")
                          /\ UNCHANGED status
             /\ UNCHANGED row_lock
  /\ UNCHANGED <<queue_items, next_id, energy, claims, retries,
               policy, reply, gate, sweeper>>

\* a dequeue that passes no worker id to dequeue_item
WorkerDequeueCommit_NoWorkerId(w) ==
  /\ pc[w] = "claiming"
  /\ LET j == row_lock[w]
         table == dequeue_item(queue_items, j, NoWorker)
         it == dequeue(Record(TRUE, table, j))
     IN /\ queue_items' = table
        /\ claims' = [claims EXCEPT ![j] = @ + 1]
        /\ IF IsNone(it)
           THEN Restart(w, "sleep")
           ELSE /\ item' = [item EXCEPT ![w] = it]
                /\ Goto(w, "process")
                /\ UNCHANGED status
  /\ row_lock' = [row_lock EXCEPT ![w] = NoId]
  /\ UNCHANGED <<next_id, energy, retries,
               policy, reply, gate, sweeper>>

\* dequeue_item updates the locked row, commits, and dequeue() returns it
WorkerDequeueCommit(w) ==
  /\ pc[w] = "claiming"
  /\ LET j == row_lock[w]
         table == dequeue_item(queue_items, j, w)
         it == dequeue(Record(TRUE, table, j))
     IN /\ queue_items' = table
        /\ claims' = [claims EXCEPT ![j] = @ + 1]
        /\ IF IsNone(it)
           THEN Restart(w, "sleep")
           ELSE /\ item' = [item EXCEPT ![w] = it]
                /\ Goto(w, "process")
                /\ UNCHANGED status
  /\ row_lock' = [row_lock EXCEPT ![w] = NoId]
  /\ UNCHANGED <<next_id, energy, retries,
               policy, reply, gate, sweeper>>

\* a DurableQueue call of the loop raises (store unreachable): the outer
\* except logs and sleeps; an open dequeue_item transaction is rolled back
WorkerStoreError(w) ==
  /\ pc[w] \in {"poll", "dequeue", "claiming"}
  /\ row_lock' = [row_lock EXCEPT ![w] = NoId]
  /\ Restart(w, "sleep")
  /\ UNCHANGED <<queue_items, next_id, energy, claims, retries,
               policy, reply, gate, sweeper>>

\* _process_notes returned its result; complete(item.id, result, ...),
\* next iteration
WorkerComplete_SubmittedContext(w) ==
  /\ pc[w] = "process"
  /\ item[w].notes # Poison
  /\ queue_items' = complete(queue_items, item[w].id,
                             process_notes(item[w].notes,
                                           queue_items[item[w].id].submitted_llm_tier),
                             queue_items[item[w].id].submitted_energy_price_eur,
                             queue_items[item[w].id].submitted_solar_available,
                             queue_items[item[w].id].submitted_llm_tier)
  /\ Restart(w, "poll")
  /\ UNCHANGED <<next_id, row_lock, energy, claims, retries,
               policy, reply, gate, sweeper>>

WorkerComplete(w) ==
  /\ pc[w] = "process"
  /\ item[w].notes # Poison
  /\ queue_items' = complete(queue_items, item[w].id,
                                  process_notes(item[w].notes, llm_tier(status[w])),
                                  status[w].electricity_price_eur,
                                  status[w].solar_available, llm_tier(status[w]))
  /\ Restart(w, "poll")
  /\ UNCHANGED <<next_id, row_lock, energy, claims, retries,
               policy, reply, gate, sweeper>>

\* the except branch marking the item completed instead of failed
WorkerFail_Completes(w, e) ==
  /\ pc[w] = "process"
  /\ queue_items' = complete(queue_items, item[w].id, NoResult,
                            status[w].electricity_price_eur,
                            status[w].solar_available, llm_tier(status[w]))
  /\ Restart(w, "poll")
  /\ UNCHANGED <<next_id, row_lock, energy, claims, retries,
               policy, reply, gate, sweeper>>

\* an except branch that logs the exception and goes on without fail()
WorkerFail_Swallows(w, e) ==
  /\ pc[w] = "process"
  /\ Restart(w, "poll")
  /\ UNCHANGED <<queue_items, next_id, row_lock, energy, claims, retries,
               policy, reply, gate, sweeper>>

\* _process_notes (or a step after it) raised e; fail(item.id, str(e)),
\* next iteration
WorkerFail(w, e) ==
  /\ pc[w] = "process"
  /\ queue_items' = fail(queue_items, item[w].id, e)
  /\ Restart(w, "poll")
  /\ UNCHANGED <<next_id, row_lock, energy, claims, retries,
               policy, reply, gate, sweeper>>

\* the copy of the loop in api/main.py: _process_notes raised e, so result
\* is unbound; fail(item.id, str(e)), and the complete(..., result=result)
\* that follows in the same except branch raises before it reaches the
\* store; the outer except logs and sleeps
WorkerFailMain(w, e) ==
  /\ pc[w] = "process"
  /\ queue_items' = fail(queue_items, item[w].id, e)
  /\ Restart(w, "sleep")
  /\ UNCHANGED <<next_id, row_lock, energy, claims, retries,
               policy, reply, gate, sweeper>>

\* an exception in the try block and then fail() itself raises: nothing is
\* written, the outer except logs and sleeps
WorkerFailError(w) ==
  /\ pc[w] = "process"
  /\ Restart(w, "sleep")
  /\ UNCHANGED <<queue_items, next_id, row_lock, energy, claims, retries,
               policy, reply, gate, sweeper>>

Next ==
  \/ EnergyChange
  \/ Tick
  \/ \E notes \in Payloads, m \in 1..MaxAttemptsBound : Enqueue(notes, m)
  \/ \E j \in JobIds : RetryDeadItem(j)
  \/ SweeperRecover
  \/ \E w \in Workers : WorkerWake(w)
  \/ \E w \in Workers : WorkerPoll(w)
  \/ \E w \in Workers : WorkerEnergy(w)
  \/ \E w \in Workers : WorkerDequeueSelect(w)
  \/ \E w \in Workers : WorkerDequeueCommit(w)
  \/ \E w \in Workers : WorkerStoreError(w)
  \/ \E w \in Workers : WorkerComplete(w)
  \/ \E w \in Workers, e \in Errors : WorkerFail(w, e)
  \/ \E w \in Workers, e \in Errors : WorkerFailMain(w, e)
  \/ \E w \in Workers : WorkerFailError(w)

Spec == Init /\ [][Next]_vars

\* ================================================ a worker process dies
\* The same system with an available store, in which a worker process may
\* die while it processes an item, and in which the sweeper, the clock, the
\* database and one worker keep running.
LiveJobs == 1
LiveWorker == NumWorkers

\* the process of worker w is killed inside _process_notes: the row stays
\* as it is, what the process held in memory is gone
Crash(w) ==
  /\ w # LiveWorker
  /\ pc[w] = "process"
  /\ Restart(w, "crashed")
  /\ UNCHANGED <<queue_items, next_id, row_lock, energy, claims, retries,
                 policy, reply, gate, sweeper>>

\* the clock passes the stale timeout of row j
Age(j) ==
  /\ j \in Ids
  /\ queue_items[j].processing_started_at = "recent"
  /\ Tick
  /\ queue_items'[j].processing_started_at = "old"

EnqueueLive(notes, m) == next_id < LiveJobs /\ Enqueue(notes, m)

WorkerResolve(w) == WorkerComplete(w) \/ \E e \in Errors : WorkerFail(w, e)

NextLive ==
  \/ EnergyChange
  \/ Tick
  \/ \E notes \in Payloads, m \in 1..MaxAttemptsBound : EnqueueLive(notes, m)
  \/ SweeperRecover
  \/ \E w \in Workers : WorkerWake(w)
  \/ \E w \in Workers : WorkerPoll(w)
  \/ \E w \in Workers : WorkerEnergy(w)
  \/ \E w \in Workers : WorkerDequeueSelect(w)
  \/ \E w \in Workers : WorkerDequeueCommit(w)
  \/ \E w \in Workers : WorkerComplete(w)
  \/ \E w \in Workers, e \in Errors : WorkerFail(w, e)
  \/ \E w \in Workers : Crash(w)

\* _stale_recovery_worker loops for ever, one sweep a minute; time passes;
\* a dequeue_item transaction that holds its row lock commits; the loop of
\* the live worker goes on from every position
Fairness ==
  /\ WF_vars(SweeperRecover)
  /\ \A j \in JobIds : WF_vars(Age(j))
  /\ \A w \in Workers : WF_vars(WorkerDequeueCommit(w))
  /\ WF_vars(WorkerWake(LiveWorker))
  /\ WF_vars(WorkerPoll(LiveWorker))
  /\ WF_vars(WorkerEnergy(LiveWorker))
  /\ WF_vars(WorkerDequeueSelect(LiveWorker))
  /\ WF_vars(WorkerResolve(LiveWorker))

SpecLive == Init /\ [][NextLive]_vars /\ Fairness

\* ====================================================== the policy alone
\* EnergyPolicy under every configuration and energy status of a bounded
\* set, applied by GET /queue.
Thresholds == {50, price_threshold_eur, 90}
Prices == {NoPrice, 0, 50, 69, 70, 71, 90}
SolarValues == {"True", "False", "None"}
StatusInputs == {NoStatus} \cup {EnergyStatus(p, s) : p \in Prices, s \in SolarValues}

InitPolicy ==
  /\ queue_items = <<>>
  /\ next_id = 0
  /\ row_lock = [w \in Workers |-> NoId]
  /\ energy \in StatusInputs
  /\ pc = [w \in Workers |-> "poll"]
  /\ item = [w \in Workers |-> None]
  /\ status = [w \in Workers |-> NoStatus]
  /\ claims = [j \in JobIds |-> 0]
  /\ retries = 0
  /\ policy \in {EnergyPolicy(t, f) : t \in Thresholds, f \in BOOLEAN}
  /\ reply = NoReply
  /\ gate = NoRequest
  /\ sweeper = "sleep"

\* the energy status endpoint answers something else
SignalChange ==
  /\ \E s \in StatusInputs \ {energy} : energy' = s
  /\ UNCHANGED <<queue_items, next_id, row_lock, pc, item, status, claims, retries,
                 policy, reply, gate, sweeper>>

\* GET /queue: status = _get_energy_status(); policy applied to it
queue_status ==
  /\ reply' = queue_status_reply(policy, energy)
  /\ UNCHANGED <<queue_items, next_id, row_lock, energy, pc, item, status, claims,
                 retries, policy, gate, sweeper>>

NextPolicy ==
  \/ SignalChange
  \/ queue_status

SpecPolicy == InitPolicy /\ [][NextPolicy]_vars

\* ==================================================== the submission gate
\* POST /notes requests, one at a time, against a changing energy signal.
\* The request fetches the status once; the signal may change while the
\* request is being served.

\* status = await _get_energy_status(); llm_tier = policy.llm_tier(status)
submit_notes_fetch(notes) ==
  /\ gate.pc \in {"idle", "done"}
  /\ next_id < MaxJobs
  /\ gate' = [NoRequest EXCEPT !.pc = "fetched", !.notes = notes, !.status = energy,
                               !.llm_tier = llm_tier(energy), !.fetched = 1,
                               !.rows_before = Ids]
  /\ UNCHANGED <<queue_items, next_id, row_lock, energy, pc, item, status, claims,
                 retries, policy, reply, sweeper>>

\* a submit_notes that asks the endpoint again for its decision
submit_notes_decide_Refetch ==
  /\ gate.pc = "fetched"
  /\ IF should_process_now(policy.price_threshold_eur, policy.fail_open, energy)
     THEN gate' = [gate EXCEPT !.pc = "process", !.invoked = @ + 1]
     ELSE gate' = [gate EXCEPT !.pc = "enqueue"]
  /\ UNCHANGED <<queue_items, next_id, row_lock, energy, pc, item, status, claims,
                 retries, policy, reply, sweeper>>

\* if policy.should_process_now(status): _process_notes is called;
\* otherwise the request goes on to the queue
submit_notes_decide ==
  /\ gate.pc = "fetched"
  /\ IF should_process_now(policy.price_threshold_eur, policy.fail_open, gate.status)
     THEN gate' = [gate EXCEPT !.pc = "process", !.invoked = @ + 1]
     ELSE gate' = [gate EXCEPT !.pc = "enqueue"]
  /\ UNCHANGED <<queue_items, next_id, row_lock, energy, pc, item, status, claims,
                 retries, policy, reply, sweeper>>

\* _process_notes returns and the request answers "processed", or it
\* raises and the exception leaves submit_notes
submit_notes_process ==
  /\ gate.pc = "process"
  /\ gate' = [gate EXCEPT !.pc = "done",
                          !.response = IF gate.notes = Poison THEN "error" ELSE "processed"]
  /\ UNCHANGED <<queue_items, next_id, row_lock, energy, pc, item, status, claims,
                 retries, policy, reply, sweeper>>

\* item_id = await durable_queue.enqueue(notes, ...); answers "queued"
submit_notes_enqueue ==
  /\ gate.pc = "enqueue"
  /\ next_id' = next_id + 1
  /\ queue_items' = enqueue(queue_items, next_id + 1, gate.notes,
                            gate.status.electricity_price_eur,
                            gate.status.solar_available, gate.llm_tier,
                            default_max_attempts)
  /\ gate' = [gate EXCEPT !.pc = "done", !.response = "queued",
                          !.queue_item_id = next_id + 1]
  /\ UNCHANGED <<row_lock, energy, pc, item, status, claims, retries, policy, reply, sweeper>>

\* durable_queue.enqueue raises (store unreachable): nothing is inserted
submit_notes_enqueue_error ==
  /\ gate.pc = "enqueue"
  /\ gate' = [gate EXCEPT !.pc = "done", !.response = "error"]
  /\ UNCHANGED <<queue_items, next_id, row_lock, energy, pc, item, status, claims,
                 retries, policy, reply, sweeper>>

NextGate ==
  \/ EnergyChange
  \/ \E notes \in Payloads : submit_notes_fetch(notes)
  \/ submit_notes_decide
  \/ submit_notes_process
  \/ submit_notes_enqueue
  \/ submit_notes_enqueue_error

SpecGate == Init /\ [][NextGate]_vars

\* ================================================ deferred work resumes
\* The gate in front of the running system: requests are deferred into the
\* queue, the store answers, and the sweeper, the clock, the database and
\* one worker keep running.  Nothing makes the submitter call again.
SubmitLive(notes) == next_id < LiveJobs /\ submit_notes_fetch(notes)

NextResume ==
  \/ EnergyChange
  \/ Tick
  \/ \E notes \in Payloads : SubmitLive(notes)
  \/ submit_notes_decide
  \/ submit_notes_process
  \/ submit_notes_enqueue
  \/ SweeperRecover
  \/ \E w \in Workers : WorkerWake(w)
  \/ \E w \in Workers : WorkerPoll(w)
  \/ \E w \in Workers : WorkerEnergy(w)
  \/ \E w \in Workers : WorkerDequeueSelect(w)
  \/ \E w \in Workers : WorkerDequeueCommit(w)
  \/ \E w \in Workers : WorkerComplete(w)
  \/ \E w \in Workers, e \in Errors : WorkerFail(w, e)

SpecResume == Init /\ [][NextResume]_vars /\ Fairness

\* ======================================================= the two loops
\* _durable_queue_worker and _stale_recovery_worker statement by statement
\* against a store that may raise at every call, with the processor raising
\* as it likes.  A loop that an exception left would be at "stopped".

\* await asyncio.sleep(STALE_RECOVERY_INTERVAL_S) is over
SweeperWake ==
  /\ sweeper = "sleep"
  /\ sweeper' = "recover"
  /\ UNCHANGED <<queue_items, next_id, row_lock, energy, pc, item, status, claims,
                 retries, policy, reply, gate>>

\* recovered = await recover_stale(timeout_minutes=5); back to the sleep
SweeperSweep ==
  /\ sweeper = "recover"
  /\ queue_items' = recover_stale(queue_items, timeout_minutes)
  /\ sweeper' = "sleep"
  /\ UNCHANGED <<next_id, row_lock, energy, pc, item, status, claims,
                 retries, policy, reply, gate>>

\* a sweeper without the try around recover_stale
SweeperStoreError_Exits ==
  /\ sweeper = "recover"
  /\ sweeper' = "stopped"
  /\ UNCHANGED <<queue_items, next_id, row_lock, energy, pc, item, status, claims,
                 retries, policy, reply, gate>>

\* recover_stale raises: the except logs, back to the sleep
SweeperStoreError ==
  /\ sweeper = "recover"
  /\ sweeper' = "sleep"
  /\ UNCHANGED <<queue_items, next_id, row_lock, energy, pc, item, status, claims,
                 retries, policy, reply, gate>>

NextLoops ==
  \/ EnergyChange
  \/ Tick
  \/ \E notes \in Payloads, m \in 1..MaxAttemptsBound : EnqueueLive(notes, m)
  \/ SweeperWake
  \/ SweeperSweep
  \/ SweeperStoreError
  \/ \E w \in Workers : WorkerWake(w)
  \/ \E w \in Workers : WorkerPoll(w)
  \/ \E w \in Workers : WorkerEnergy(w)
  \/ \E w \in Workers : WorkerDequeueSelect(w)
  \/ \E w \in Workers : WorkerDequeueCommit(w)
  \/ \E w \in Workers : WorkerStoreError(w)
  \/ \E w \in Workers : WorkerComplete(w)
  \/ \E w \in Workers, e \in Errors : WorkerFail(w, e)
  \/ \E w \in Workers, e \in Errors : WorkerFailMain(w, e)
  \/ \E w \in Workers : WorkerFailError(w)

SpecLoops == Init /\ [][NextLoops]_vars

\* ============================================================== claims
Row(j) == queue_items[j]
Held(w) == pc[w] = "process"

\* a dequeue() call of worker w returns an item in this step
Returned(w) == ~Held(w) /\ Held(w)'

\* ----------------------------------------------------------------- C1
\* C1 (no double-claim).  No row is locked by two in-flight dequeues, and
\* whenever a dequeue call returns an item to a worker, that item is a row
\* that was pending just before, is processing with that worker as its
\* worker_id just after, and is locked by no other in-flight dequeue; so with
\* one pending job and several concurrent callers one caller gets it and the
\* others get none, and a row is returned a second time only after a fail,
\* recover_stale or retry_dead_item has made it pending again (the only
\* steps that make a row pending are taken from processing or dead).
C1_LockExclusive ==
  \A w1, w2 \in Workers :
    (w1 # w2 /\ row_lock[w1] # NoId) => row_lock[w1] # row_lock[w2]

C1_ReturnStep ==
  \A w \in Workers :
    Returned(w) =>
      LET j == item'[w].id
      IN /\ j \in Ids
         /\ Row(j).status = "pending"
         /\ queue_items'[j].status = "processing"
         /\ queue_items'[j].worker_id = w
         /\ \A w2 \in Workers \ {w} : row_lock[w2] # j /\ ~Returned(w2)

C1_BackToPending ==
  \A j \in Ids :
    (j \in DOMAIN queue_items' /\ Row(j).status # "pending"
       /\ queue_items'[j].status = "pending")
    => Row(j).status \in {"processing", "dead"}

C1_NoDoubleClaim ==
  /\ []C1_LockExclusive
  /\ [][C1_ReturnStep /\ C1_BackToPending]_vars

\* two workers polled concurrently while one job was pending: one holds it,
\* the other got none and sleeps
C1_Witness ==
  /\ Cardinality(WithStatus("pending") \cup WithStatus("processing")) = 1
  /\ \E w1, w2 \in Workers :
       /\ w1 # w2
       /\ Held(w1) /\ item[w1].id \in WithStatus("processing")
       /\ Row(item[w1].id).worker_id = w1
       /\ pc[w2] = "sleep"

\* ----------------------------------------------------------------- C2
\* C2 (attempts monotonicity).  In every step and for every row: a claim
\* (pending -> processing) adds exactly 1 to attempts, a retry_dead_item
\* (dead -> pending) sets attempts to 0, every other step leaves attempts
\* as it is, and a row starts with attempts 0.
C2_Step ==
  /\ \A j \in Ids \cap DOMAIN queue_items' :
       LET claimed == Row(j).status = "pending" /\ queue_items'[j].status = "processing"
           retried == Row(j).status = "dead" /\ queue_items'[j].status = "pending"
       IN /\ claimed => queue_items'[j].attempts = Row(j).attempts + 1
          /\ retried => queue_items'[j].attempts = 0
          /\ (~claimed /\ ~retried) => queue_items'[j].attempts = Row(j).attempts
  /\ \A j \in DOMAIN queue_items' \ Ids : queue_items'[j].attempts = 0
  /\ \A w \in Workers :
       Returned(w) /\ item'[w].id \in Ids
         => queue_items'[item'[w].id].attempts = Row(item'[w].id).attempts + 1

Resolves(w) == Held(w) /\ ~Held(w)'

\* statuses under which an item is processed, as complete() receives them
Passing == {s \in SignalValues : should_process_now(price_threshold_eur, fail_open, s)}

\* ----------------------------------------------------------------- C4
\* C4 (fail decision rule).  From every reachable table, fail(id, msg) on a
\* row in processing makes it pending when attempts < max_attempts, with
\* worker_id and processing_started_at cleared and msg in last_error, and
\* dead otherwise; it returns the row's status after the call and touches no
\* other row.  Every worker step that fails a processing row follows the rule.
C4_Rule ==
  \A j \in WithStatus("processing"), e \in Errors :
    LET t == fail(queue_items, j, e)
    IN /\ DOMAIN t = Ids
       /\ t[j].status = IF Row(j).attempts < Row(j).max_attempts THEN "pending" ELSE "dead"
       /\ Row(j).attempts < Row(j).max_attempts =>
            /\ t[j].worker_id = NoWorker
            /\ t[j].processing_started_at = NoTime
            /\ t[j].last_error = e
       /\ fail_new_status(queue_items, j, e) = t[j].status
       /\ \A k \in Ids \ {j} : t[k] = Row(k)

C4_Step ==
  \A w \in Workers :
    LET j == item[w].id
    IN (Resolves(w) /\ j \in WithStatus("processing")
          /\ queue_items'[j].status \in {"pending", "dead"})
       => /\ queue_items'[j].status =
               IF Row(j).attempts < Row(j).max_attempts THEN "pending" ELSE "dead"
          /\ queue_items'[j].last_error \in Errors
          /\ queue_items'[j].worker_id = NoWorker
          /\ queue_items'[j].processing_started_at = NoTime

C4_FailRule == []C4_Rule /\ [][C4_Step]_vars

\* fail has returned a job with attempts 1 < max_attempts 2 to pending
C4_Witness ==
  \E j \in Ids :
    /\ Row(j).status = "pending"
    /\ Row(j).attempts = 1
    /\ Row(j).max_attempts = 2
    /\ Row(j).last_error \in Errors
    /\ Row(j).worker_id = NoWorker
    /\ Row(j).processing_started_at = NoTime

\* ----------------------------------------------------------------- C5
\* C5 (complete only from processing).  From every reachable table and for
\* every id, known or not: complete on a row that is not in processing
\* returns false and leaves the whole table as it is; on a row in processing
\* it returns true and stores status completed, the result, the processed
\* context and completed_at, touching no other row.  A worker that resolves
\* an item whose row is no longer in processing changes nothing.
C5_Rule ==
  \A id \in JobIds \cup {MaxJobs + 1}, r \in Results, s \in Passing :
    LET t == complete(queue_items, id, r, s.electricity_price_eur,
                      s.solar_available, llm_tier(s))
        ok == complete_success(queue_items, id)
    IN IF id \in WithStatus("processing")
       THEN /\ ok
            /\ DOMAIN t = Ids
            /\ t[id].status = "completed"
            /\ t[id].result = r
            /\ t[id].processed_energy_price_eur = s.electricity_price_eur
            /\ t[id].processed_solar_available = s.solar_available
            /\ t[id].processed_llm_tier = llm_tier(s)
            /\ t[id].completed_at # NoTime
            /\ \A k \in Ids \ {id} : t[k] = Row(k)
       ELSE ~ok /\ t = queue_items

C5_Step ==
  \A w \in Workers :
    (Resolves(w) /\ item[w].id \notin WithStatus("processing"))
    => queue_items' = queue_items

C5_CompleteOnlyProcessing == []C5_Rule /\ [][C5_Step]_vars

\* one job was completed under solar power; a worker still holds another
\* job that stale recovery has meanwhile moved to dead
C5_Witness ==
  /\ \E j \in Ids :
       /\ Row(j).status = "completed"
       /\ Row(j).result = process_notes(Row(j).notes, "large")
       /\ Row(j).processed_llm_tier = "large"
       /\ Row(j).completed_at # NoTime
  /\ \E w \in Workers :
       /\ Held(w)
       /\ item[w].notes # Poison
       /\ item[w].id \in WithStatus("dead")

\* ----------------------------------------------------------------- C6
\* C6 (idempotent completion).  From every reachable table with a row in
\* processing, two successive complete calls on it return true then false,
\* and the table after the second call is the table after the first,
\* whatever result and context the second call passed; in the running
\* system no step changes a completed row.
C6_Rule ==
  \A j \in WithStatus("processing"), r1 \in Results, r2 \in Results, s1 \in Passing, s2 \in Passing :
    LET t1 == complete(queue_items, j, r1, s1.electricity_price_eur,
                       s1.solar_available, llm_tier(s1))
        t2 == complete(t1, j, r2, s2.electricity_price_eur,
                       s2.solar_available, llm_tier(s2))
    IN /\ complete_success(queue_items, j)
       /\ ~complete_success(t1, j)
       /\ t1[j].status = "completed"
       /\ t1[j].result = r1
       /\ t2 = t1

C6_Step ==
  \A j \in WithStatus("completed") : queue_items'[j] = Row(j)

C6_IdempotentCompletion == []C6_Rule /\ [][C6_Step]_vars

\* a job is completed and a second worker, which had claimed it too, has
\* its own result for it and is about to call complete again
C6_Witness ==
  \E w \in Workers :
    /\ Held(w)
    /\ item[w].notes # Poison
    /\ item[w].id \in WithStatus("completed")
    /\ Row(item[w].id).result # process_notes(item[w].notes, llm_tier(status[w]))

\* ----------------------------------------------------------------- C7
\* C7 (stale recovery).  From every reachable table, recover_stale(timeout)
\* moves every row in processing for longer than the timeout to pending if
\* attempts < max_attempts and to dead otherwise, with worker_id cleared,
\* leaves every other row as it is, and returns the number of rows moved;
\* every step of the system that times a row out is such a sweep.
C7_Rule ==
  LET t == recover_stale(queue_items, timeout_minutes)
  IN /\ DOMAIN t = Ids
     /\ \A j \in Ids :
          IF Row(j).status = "processing" /\ Row(j).processing_started_at = "old"
          THEN /\ t[j].status =
                    IF Row(j).attempts < Row(j).max_attempts THEN "pending" ELSE "dead"
               /\ t[j].worker_id = NoWorker
          ELSE t[j] = Row(j)
     /\ recover_stale_count(queue_items, timeout_minutes)
          = Cardinality({j \in Ids : t[j] # Row(j)})

C7_Step ==
  (\E j \in WithStatus("processing") :
      /\ queue_items'[j].status \in {"pending", "dead"}
      /\ queue_items'[j].last_error = TimeoutError)
  => \A j \in Ids :
       IF Row(j).status = "processing" /\ Row(j).processing_started_at = "old"
       THEN /\ queue_items'[j].status =
                 IF Row(j).attempts < Row(j).max_attempts THEN "pending" ELSE "dead"
            /\ queue_items'[j].worker_id = NoWorker
       ELSE queue_items'[j] = Row(j)

C7_StaleRecovery == []C7_Rule /\ [][C7_Step]_vars

\* a sweep has timed one job out (pending again, worker_id cleared) and has
\* left alone another that is in processing for less than the timeout
C7_Witness ==
  \E j, k \in Ids :
    /\ Row(j).status = "pending"
    /\ Row(j).last_error = TimeoutError
    /\ Row(j).worker_id = NoWorker
    /\ Row(k).status = "processing"
    /\ Row(k).processing_started_at = "recent"
    /\ Row(k).attempts = 1

\* ----------------------------------------------------------------- C9
\* C9 (policy gating).  should_process_now(status) is fail_open when the
\* status is absent, true when solar_available is true whatever the price,
\* fail_open when the price is absent, and otherwise true iff the price is
\* below the threshold (a price equal to the threshold defers).  With
\* threshold 0.70 and fail_open true: (0.50, no solar) -> true,
\* (0.90, no solar) -> false, (0.90, solar) -> true, no status -> true.
C9_Expected(pol, st) ==
  CASE ~st.present -> pol.fail_open
    [] st.present /\ st.solar_available = "True" -> TRUE
    [] st.present /\ st.solar_available # "True" /\ st.electricity_price_eur = NoPrice
         -> pol.fail_open
    [] OTHER -> st.electricity_price_eur < pol.price_threshold_eur

C9_Examples ==
  policy = EnergyPolicy(70, TRUE) =>
    /\ reply.energy = EnergyStatus(50, "False") => reply.process_now
    /\ reply.energy = EnergyStatus(90, "False") => ~reply.process_now
    /\ reply.energy = EnergyStatus(90, "True") => reply.process_now
    /\ reply.energy = NoStatus => reply.process_now
    /\ reply.energy = EnergyStatus(70, "False") => ~reply.process_now

C9_PolicyGating ==
  reply.sent => /\ reply.process_now = C9_Expected(policy, reply.energy)
                /\ C9_Examples

\* the policy was asked about a price equal to its threshold, without solar
\* power, and deferred
C9_Witness ==
  /\ reply.sent
  /\ policy = EnergyPolicy(70, TRUE)
  /\ reply.energy = EnergyStatus(70, "False")
  /\ ~reply.process_now

\* ---------------------------------------------------------------- C10
\* C10 as stated (policy tier).  For a status with solar power not available
\* and a price below the threshold the policy says process now and the tier
\* is "large"; with solar power available the tier is "large" at any price.
C10_TierLargeBelowThreshold ==
  reply.sent /\ reply.energy.present =>
    /\ ( /\ reply.energy.solar_available # "True"
         /\ reply.energy.electricity_price_eur # NoPrice
         /\ reply.energy.electricity_price_eur < policy.price_threshold_eur )
       => reply.process_now /\ reply.llm_tier = "large"
    /\ reply.energy.solar_available = "True" => reply.llm_tier = "large"

\* C10 (policy tier, as the code has it).  For a status with solar power not
\* available and a price below the threshold the policy says process now
\* and the tier is "small"; with solar power available the tier is "large"
\* at any price; the tier is "large" in no other case.
C10_TierFollowsSolar ==
  reply.sent =>
    /\ ( /\ reply.energy.present
         /\ reply.energy.solar_available # "True"
         /\ reply.energy.electricity_price_eur # NoPrice
         /\ reply.energy.electricity_price_eur < policy.price_threshold_eur )
       => reply.process_now /\ reply.llm_tier = "small"
    /\ (reply.energy.present /\ reply.energy.solar_available = "True")
       => reply.llm_tier = "large"
    /\ reply.llm_tier = "large"
       => reply.energy.present /\ reply.energy.solar_available = "True"
    /\ reply.llm_tier \in {"large", "small"}

\* the policy was asked about price 0.50 under threshold 0.70 without solar
\* power: process now, tier "small"
C10_Witness ==
  /\ reply.sent
  /\ policy = EnergyPolicy(70, TRUE)
  /\ reply.energy = EnergyStatus(50, "False")
  /\ reply.process_now
  /\ reply.llm_tier = "small"

\* ----------------------------------------------------------------- C8
C8_CrashedHolding(w, j) ==
  /\ pc[w] = "crashed"
  /\ j \in Ids
  /\ Row(j).status = "processing"
  /\ Row(j).worker_id = w

C8_Reaches(j, statuses) == j \in Ids /\ Row(j).status \in statuses

\* the live worker, whenever it asks the policy, is eventually let through
C8_PolicyAllows == (pc[LiveWorker] = "energy") ~> (pc[LiveWorker] = "dequeue")

C8_Terminates ==
  C8_PolicyAllows =>
    \A w \in Workers, j \in JobIds :
      C8_CrashedHolding(w, j) ~> C8_Reaches(j, {"completed", "dead"})

C11_ProcessNow == should_process_now(policy.price_threshold_eur, policy.fail_open, gate.status)

C11_NewRows == Ids \ gate.rows_before

C12_Allowed == should_process_now(policy.price_threshold_eur, policy.fail_open, energy)

C12_DeferredResumes ==
  <>[]C12_Allowed =>
    \A j \in JobIds :
      (j \in Ids /\ Row(j).status = "pending")
        ~> (j \in Ids /\ Row(j).status = "processing" /\ Row(j).worker_id \in Workers)

\* the gate deferred a request under a status that said not now; the signal
\* has turned, and the live worker now holds the job on its first claim
C12_Witness ==
  /\ gate.pc = "done"
  /\ gate.response = "queued"
  /\ ~should_process_now(policy.price_threshold_eur, policy.fail_open, gate.status)
  /\ C12_Allowed
  /\ Row(gate.queue_item_id).status = "processing"
  /\ Row(gate.queue_item_id).worker_id = LiveWorker
  /\ Row(gate.queue_item_id).attempts = 1
  /\ pc[LiveWorker] = "process"

\* ---------------------------------------------------------------- C13
\* C13 (worker gating).  A worker that reads a pending count of 0, or whose
\* policy says not now on the status it has just fetched, goes to sleep and
\* from there to a new iteration; it starts a claim only from the position
\* it reaches after a non-zero count and a policy that said process now on
\* the status fetched in that iteration.
C13_Says(st) == should_process_now(policy.price_threshold_eur, policy.fail_open, st)

C13_Gated ==
  \A w \in Workers : pc[w] \in {"dequeue", "claiming"} => C13_Says(status[w])

C13_Step ==
  \A w \in Workers :
    /\ (pc[w] = "poll" /\ get_pending_count(queue_items) = 0 /\ pc'[w] # "poll")
         => pc'[w] = "sleep"
    /\ (pc[w] = "energy" /\ ~C13_Says(energy) /\ pc'[w] # "energy")
         => pc'[w] = "sleep"
    /\ (pc[w] = "sleep" /\ pc'[w] # "sleep") => pc'[w] = "poll"
    /\ (pc[w] # "energy" /\ pc'[w] = "energy")
         => pc[w] = "poll" /\ get_pending_count(queue_items) > 0
    /\ (pc[w] # "dequeue" /\ pc'[w] = "dequeue")
         => pc[w] = "energy" /\ C13_Says(energy) /\ status'[w] = energy
    /\ (row_lock[w] = NoId /\ row_lock'[w] # NoId) => pc[w] = "dequeue"
    /\ (pc[w] # "claiming" /\ pc'[w] = "claiming") => pc[w] = "dequeue"
    /\ (pc[w] # "process" /\ pc'[w] = "process") => pc[w] \in {"dequeue", "claiming"}

C13_WorkerGating == []C13_Gated /\ [][C13_Step]_vars

\* a job is pending, nobody has claimed anything, the signal says not now,
\* and a worker that got as far as asking the policy is asleep
C13_Witness ==
  \E w \in Workers :
    /\ pc[w] = "sleep"
    /\ get_pending_count(queue_items) > 0
    /\ ~C13_Says(energy)
    /\ \A j \in JobIds : claims[j] = 0
    /\ \A v \in Workers \ {w} : pc[v] = "dequeue"

\* ---------------------------------------------------------------- C14
\* C14 as stated (processing failures are always resolved).  Whenever the
\* processor raises for a job a worker has claimed, the worker calls fail
\* for it before it claims another job, so the job is not left in
\* processing by that worker.
C14_RaisedFor(w) == Resolves(w) /\ item[w].notes = Poison

C14_Step ==
  \A w \in Workers :
    C14_RaisedFor(w) =>
      LET j == item[w].id
      IN /\ \/ /\ \E e \in Errors : queue_items' = fail(queue_items, j, e)
               /\ pc'[w] \in {"poll", "sleep"}
               /\ j \in WithStatus("processing")
                    => queue_items'[j].status \in {"pending", "dead"}
            \/ /\ queue_items' = queue_items
               /\ pc'[w] = "sleep"
         /\ item'[w] = None
         /\ row_lock'[w] = NoId
         /\ claims' = claims

C14_NoClaimWhileHeld == \A w \in Workers : Held(w) => row_lock[w] = NoId

C15_WorkerStep(w) ==
  \/ WorkerWake(w)
  \/ WorkerPoll(w)
  \/ WorkerEnergy(w)
  \/ WorkerDequeueSelect(w)
  \/ WorkerDequeueCommit(w)
  \/ WorkerStoreError(w)
  \/ WorkerComplete(w)
  \/ \E e \in Errors : WorkerFail(w, e)
  \/ WorkerFailError(w)

C15_After(position) ==
  CASE position = "sleep" -> {"poll"}
    [] position = "poll" -> {"sleep", "energy"}
    [] position = "energy" -> {"sleep", "dequeue"}
    [] position = "dequeue" -> {"sleep", "claiming", "process"}
    [] position = "claiming" -> {"sleep", "process"}
    [] position = "process" -> {"sleep", "poll"}
    [] OTHER -> {}

C15_InLoop ==
  /\ sweeper \in {"sleep", "recover"}
  /\ ENABLED (SweeperWake \/ SweeperSweep \/ SweeperStoreError)
  /\ \A w \in Workers :
       /\ pc[w] \in {"sleep", "poll", "energy", "dequeue", "claiming", "process"}
       /\ ENABLED C15_WorkerStep(w)
       /\ pc[w] = "sleep" => ENABLED WorkerWake(w)

C15_Step ==
  /\ \A w \in Workers : pc'[w] # pc[w] => pc'[w] \in C15_After(pc[w])
  /\ \A w \in Workers :
       (pc[w] \in {"poll", "dequeue", "claiming"} /\ pc'[w] # pc[w]
          /\ item'[w] = None /\ row_lock'[w] = NoId /\ queue_items' = queue_items
          /\ pc'[w] \notin {"energy", "claiming"})
       => pc'[w] = "sleep"
  /\ sweeper' # sweeper => sweeper' = (IF sweeper = "sleep" THEN "recover" ELSE "sleep")

C15_LoopsNeverExit == []C15_InLoop /\ [][C15_Step]_vars

\* a sweep found the store unreachable while a stale row was waiting, and
\* the sweeper is back in its sleep; a worker whose fail call raised is
\* asleep with its job still in processing
C15_Witness ==
  /\ sweeper = "sleep"
  /\ \E j \in Ids, w \in Workers :
       /\ Row(j).status = "processing"
       /\ Row(j).processing_started_at = "old"
       /\ Row(j).worker_id = w
       /\ pc[w] = "sleep"

\* ---------------------------------------------------------------- C16
\* C16 (oldest-first claim).  A claim that starts while no other claim is
\* in flight takes the pending job with the earliest created_at of all
\* pending jobs (with others in flight, the earliest of those not locked);
\* no step changes a job's created_at, so a job that fail or recover_stale
\* returned to pending is claimed before every pending job created after it.
C16_Starts(w, j) == row_lock[w] = NoId /\ row_lock'[w] = j /\ j # NoId

C16_Step ==
  /\ \A w \in Workers, j \in JobIds :
       C16_Starts(w, j) =>
         /\ j \in WithStatus("pending")
         /\ j \notin Locked
         /\ \A k \in WithStatus("pending") \ Locked : Row(j).created_at <= Row(k).created_at
         /\ Locked = {} =>
              \A k \in WithStatus("pending") : Row(j).created_at <= Row(k).created_at
  /\ \A j \in Ids : queue_items'[j].created_at = Row(j).created_at
  /\ \A j \in JobIds : claims'[j] > claims[j] => \E w \in Workers : row_lock[w] = j

C16_Distinct ==
  \A j \in Ids, k \in Ids : j # k => Row(j).created_at # Row(k).created_at

C16_OldestFirst == []C16_Distinct /\ [][C16_Step]_vars

\* the older job was claimed, failed back to pending, and is being claimed
\* again, alone, ahead of the younger job that has been pending all along
C16_Witness ==
  \E w \in Workers, j \in Ids, k \in Ids :
    /\ row_lock[w] = j
    /\ Locked = {j}
    /\ Row(j).status = "pending"
    /\ Row(j).attempts = 1
    /\ Row(j).last_error \in Errors
    /\ Row(k).status = "pending"
    /\ Row(k).attempts = 0
    /\ Row(j).created_at < Row(k).created_at

\* ---------------------------------------------------------------- C17
\* C17 (non-blocking claim).  A claim is never made to wait: a worker about
\* to claim can always take its step, and a claim in flight can always
\* finish, whatever the other workers hold or have in flight.  The claim
\* takes a pending row that no claim in flight has locked, hence one
\* different from every job in processing and every job being claimed, and
\* returns it; if there is no such row it returns none at once.
C17_Available == WithStatus("pending") \ Locked

C17_NeverWaits ==
  \A w \in Workers :
    /\ pc[w] = "dequeue" => ENABLED WorkerDequeueSelect(w)
    /\ pc[w] = "claiming" => ENABLED WorkerDequeueCommit(w)

C17_Step ==
  \A w \in Workers :
    /\ WorkerDequeueSelect(w) =>
         IF C17_Available # {}
         THEN /\ row_lock'[w] \in C17_Available
              /\ \A v \in Workers \ {w} :
                   row_lock'[w] # row_lock[v] /\ (Held(v) /\ item[v].id \in WithStatus("processing")
                                                    => row_lock'[w] # item[v].id)
              /\ pc'[w] = "claiming"
         ELSE /\ pc'[w] = "sleep"
              /\ item'[w] = None
              /\ row_lock'[w] = NoId
    /\ WorkerDequeueCommit(w) =>
         /\ pc'[w] = "process"
         /\ item'[w].held
         /\ item'[w].id = row_lock[w]
         /\ queue_items'[row_lock[w]].status = "processing"
         /\ queue_items'[row_lock[w]].worker_id = w

C17_NonBlockingClaim == []C17_NeverWaits /\ [][C17_Step]_vars

\* one worker holds a job in processing while the other has a claim in
\* flight on a different, pending, job
C17_Witness ==
  \E v \in Workers, w \in Workers :
    /\ v # w
    /\ Held(v)
    /\ Row(item[v].id).status = "processing"
    /\ Row(item[v].id).worker_id = v
    /\ row_lock[w] # NoId
    /\ row_lock[w] # item[v].id
    /\ Row(row_lock[w]).status = "pending"

\* ---------------------------------------------------------------- C18
\* a worker's claim on the job it holds stands: the row is in processing
\* and names the worker
C18_Stands(w) ==
  /\ Held(w)
  /\ item[w].id \in WithStatus("processing")
  /\ Row(item[w].id).worker_id = w

C18_Step ==
  \A w \in Workers :
    /\ Returned(w) =>
         /\ C18_Stands(w)'
         /\ \A v \in Workers \ {w} : ~(C18_Stands(v) /\ item[v].id = item'[w].id)
    /\ (C18_Stands(w) /\ ~C18_Stands(w)') =>
         LET j == item[w].id
         IN \/ ~Held(w)'
            \/ /\ Row(j).processing_started_at = "old"
               /\ queue_items'[j].status \in {"pending", "dead"}
               /\ queue_items'[j].last_error = TimeoutError
            \/ \E u \in Workers \ {w} :
                 /\ Held(u) /\ item[u].id = j /\ ~C18_Stands(u)
                 /\ ~Held(u)'

C18_OneStandingHolder ==
  \A v \in Workers, w \in Workers :
    (v # w /\ C18_Stands(v) /\ C18_Stands(w)) => item[v].id # item[w].id

C19_Fields(row) ==
  IF row.status = "processing"
  THEN row.processing_started_at # NoTime /\ row.worker_id # NoWorker
  ELSE row.processing_started_at = NoTime /\ row.worker_id = NoWorker

C19_Table(table) == \A j \in DOMAIN table : C19_Fields(table[j])

\* C19 (holder fields invariant).  In every reachable state every row has
\* processing_started_at and worker_id both non-null when its status is
\* processing and both null otherwise; and from every reachable table the
\* table after complete, after fail (to pending or to dead), after
\* recover_stale and after retry_dead_item is again such a table.
C19_HolderFields ==
  /\ C19_Table(queue_items)
  /\ \A j \in Ids :
       /\ \A r \in Results, s \in Passing :
            C19_Table(complete(queue_items, j, r, s.electricity_price_eur,
                               s.solar_available, llm_tier(s)))
       /\ \A e \in Errors : C19_Table(fail(queue_items, j, e))
       /\ C19_Table(retry_dead_item(queue_items, j))
  /\ C19_Table(recover_stale(queue_items, timeout_minutes))

\* one row is held in processing by a worker; the other went dead, was
\* retried from the dead letter queue and is pending with both fields null
C19_Witness ==
  \E j \in Ids, k \in Ids :
    /\ Row(j).status = "processing"
    /\ Row(j).worker_id \in Workers
    /\ Row(j).processing_started_at = "old"
    /\ retries = 1
    /\ Row(k).status = "pending"
    /\ Row(k).attempts = 0
    /\ Row(k).max_attempts = 1
    /\ claims[k] = 0
    /\ Row(k).worker_id = NoWorker
    /\ Row(k).processing_started_at = NoTime

\* ---------------------------------------------------------------- C20
\* C20 (dead only when exhausted).  In every reachable state a dead row has
\* attempts equal to its max_attempts (which is at least 1); and a row
\* becomes dead only in a step that takes it from processing, with its
\* attempts unchanged, and that is either the fail call of a worker holding
\* it or a recover_stale sweep timing it out.  A new row is never dead.
C20_DeadExhausted ==
  \A j \in WithStatus("dead") :
    Row(j).max_attempts >= 1 /\ Row(j).attempts = Row(j).max_attempts

C20_Step ==
  \A j \in DOMAIN queue_items' :
    queue_items'[j].status = "dead" =>
      \/ j \in WithStatus("dead")
      \/ /\ j \in WithStatus("processing")
         /\ queue_items'[j].attempts = Row(j).attempts
         /\ \/ /\ \E w \in Workers : Held(w) /\ item[w].id = j /\ ~Held(w)'
               /\ queue_items'[j].last_error \in Errors
            \/ /\ Row(j).processing_started_at = "old"
               /\ queue_items'[j].last_error = TimeoutError
               /\ pc' = pc

C20_DeadOnlyWhenExhausted == []C20_DeadExhausted /\ [][C20_Step]_vars

\* one row went dead by a worker's fail on its only attempt, the other by
\* the sweeper timing out its second attempt
C20_Witness ==
  \E j \in Ids, k \in Ids :
    /\ Row(j).status = "dead"
    /\ Row(j).last_error \in Errors
    /\ Row(j).attempts = 1
    /\ Row(j).max_attempts = 1
    /\ Row(k).status = "dead"
    /\ Row(k).last_error = TimeoutError
    /\ Row(k).attempts = 2
    /\ Row(k).max_attempts = 2

\* ---------------------------------------------------------------- C21
\* the rows of a table that claim, complete, fail, recover_stale (and, if
\* retry is set, retry_dead_item) applied to row j or chosen by the store
\* can produce from it
C21_After(table, j, retry) ==
  {complete(table, j, r, s.electricity_price_eur, s.solar_available, llm_tier(s)) :
     r \in Results, s \in Passing}
  \cup {fail(table, j, e) : e \in Errors \cup {TimeoutError}}
  \cup {recover_stale(table, timeout_minutes)}
  \cup (IF retry THEN {retry_dead_item(table, j)} ELSE {})

\* C21 (terminal states).  From every reachable table: complete, fail,
\* recover_stale and retry_dead_item leave a completed row as it is, and
\* complete, fail and recover_stale leave a dead row as it is; a claim never
\* selects a completed or dead row.  In every step a completed row keeps its
\* status and result, and a dead row either stays dead with its last_error
\* or becomes pending by a retry_dead_item (attempts 0, one more retry).
C21_Rule ==
  /\ \A j \in WithStatus("completed") :
       \A t \in C21_After(queue_items, j, TRUE) : t[j] = Row(j)
  /\ \A j \in WithStatus("dead") :
       \A t \in C21_After(queue_items, j, FALSE) : t[j] = Row(j)
  /\ SelectForUpdateSkipLocked(queue_items, Locked)
       \notin WithStatus("completed") \cup WithStatus("dead")

C21_Step ==
  /\ \A j \in WithStatus("completed") :
       /\ queue_items'[j].status = "completed"
       /\ queue_items'[j].result = Row(j).result
  /\ \A j \in WithStatus("dead") :
       \/ /\ queue_items'[j].status = "dead"
          /\ queue_items'[j].last_error = Row(j).last_error
       \/ /\ queue_items'[j].status = "pending"
          /\ queue_items'[j].attempts = 0
          /\ retries' = retries + 1

C21_TerminalStates == []C21_Rule /\ [][C21_Step]_vars

\* a worker still holds a job the sweeper has made dead, and is about to
\* call fail for it, while the other job is completed
C21_Witness ==
  \E w \in Workers, k \in Ids :
    /\ Held(w)
    /\ item[w].notes = Poison
    /\ Row(item[w].id).status = "dead"
    /\ Row(item[w].id).last_error = TimeoutError
    /\ Row(k).status = "completed"
    /\ Row(k).result # NoResult

\* ---------------------------------------------------------------- C22
C22_Statuses == {"pending", "processing", "completed", "dead"}

\* what any reader of row j can rely on: one of the four statuses, attempts
\* equal to the number of claims since the enqueue or the last retry, at
\* least one attempt behind every status a claim leads to, and the holder
\* fields set exactly in processing
C22_Consistent(j) ==
  /\ Row(j).status \in C22_Statuses
  /\ Row(j).attempts = claims[j]
  /\ Row(j).status \in {"processing", "completed", "dead"} => Row(j).attempts >= 1
  /\ Row(j).status = "processing" <=>
       (Row(j).worker_id \in Workers /\ Row(j).processing_started_at # NoTime)
  /\ Row(j).status # "processing" =>
       (Row(j).worker_id = NoWorker /\ Row(j).processing_started_at = NoTime)

\* the rows one whole operation on row j can leave in its place
C22_Whole(j) ==
  {dequeue_item(queue_items, j, w)[j] : w \in Workers}
  \cup {t[j] : t \in C21_After(queue_items, j, TRUE)}

\* C22 (atomic transitions).  Every state a reader (get_pending_count, the
\* worker's poll, GET /queue) can see has every row consistent, and every
\* step leaves each row as it was, ages its processing_started_at, or
\* replaces it by the row one whole claim, complete, fail, recover_stale or
\* retry_dead_item produces: no status outside the four, and no status
\* changed without attempts, worker_id and processing_started_at with it.
C22_Observable == \A j \in Ids : C22_Consistent(j)

C22_Step ==
  \A j \in Ids :
    \/ queue_items'[j] = Row(j)
    \/ /\ Row(j).processing_started_at = "recent"
       /\ queue_items'[j] = [Row(j) EXCEPT !.processing_started_at = "old"]
    \/ queue_items'[j] \in C22_Whole(j)

C22_AtomicTransitions == []C22_Observable /\ [][C22_Step]_vars

\* a claim is in flight on one row (locked, not yet updated: still pending
\* with no attempt counted) while the other row is in processing after a
\* failed first attempt
C22_Witness ==
  \E w \in Workers, k \in Ids :
    /\ row_lock[w] # NoId
    /\ Row(row_lock[w]).status = "pending"
    /\ Row(row_lock[w]).attempts = 0
    /\ k # row_lock[w]
    /\ Row(k).status = "processing"
    /\ Row(k).attempts = 2
    /\ Row(k).last_error \in Errors

\* ---------------------------------------------------------------- C23
\* C23 (retry_dead_item).  From every reachable table and for every id,
\* known or not: on a dead row the call answers true and leaves the row
\* pending with attempts 0 and last_error, worker_id and
\* processing_started_at null, every other field (notes, max_attempts,
\* created_at among them) and every other row as they were; on any other
\* row and on an unknown id it answers false and the table is unchanged.
C23_Rule ==
  \A j \in JobIds :
    LET t == retry_dead_item(queue_items, j)
    IN IF j \in WithStatus("dead")
       THEN /\ retry_dead_item_ok(queue_items, j)
            /\ DOMAIN t = Ids
            /\ t[j] = [Row(j) EXCEPT !.status = "pending",
                                     !.attempts = 0,
                                     !.last_error = NoText,
                                     !.worker_id = NoWorker,
                                     !.processing_started_at = NoTime]
            /\ t[j].notes = Row(j).notes
            /\ t[j].max_attempts = Row(j).max_attempts
            /\ t[j].created_at = Row(j).created_at
            /\ \A k \in Ids \ {j} : t[k] = Row(k)
       ELSE /\ ~retry_dead_item_ok(queue_items, j)
            /\ t = queue_items

\* a retry was made: one row is back to pending from dead, with its
\* max_attempts of 2 and no attempts or error left, while the other row is
\* dead
C23_Witness ==
  /\ retries = 1
  /\ \E j \in Ids, k \in Ids :
       /\ Row(k).status = "pending"
       /\ Row(k).attempts = 0
       /\ Row(k).max_attempts = 2
       /\ Row(k).last_error = NoText
       /\ claims[k] = 0
       /\ Row(j).status = "dead"
       /\ Row(j).last_error \in Errors

\* ======================================================= purge_completed
\* POST /queue/purge -> DurableQueue.purge_completed(older_than_hours).
\* Time is counted in hours; completed_at of a completed row is the hour it
\* was completed at, and PurgeNow is NOW().
PurgeRows == 3
PurgeNow == 3
PurgeHours == 0..PurgeNow

\* a purge with completed_at <= cutoff
purge_completed_AtCutoff(table, now, older_than_hours) ==
  [j \in {k \in DOMAIN table :
            ~(table[k].status = "completed"
              /\ table[k].completed_at <= now - older_than_hours)} |-> table[j]]

\* DELETE FROM queue_items WHERE status = 'completed'
\*   AND completed_at < NOW() - ($1 || ' hours')::INTERVAL
purge_completed(table, now, older_than_hours) ==
  [j \in {k \in DOMAIN table :
            ~(table[k].status = "completed"
              /\ table[k].completed_at < now - older_than_hours)} |-> table[j]]

\* count = int(result.split()[-1]) of "DELETE N"
purge_completed_count(table, now, older_than_hours) ==
  Cardinality(DOMAIN table) - Cardinality(DOMAIN purge_completed(table, now, older_than_hours))

\* the rows the operations of the store leave behind: a fresh row, the row
\* after a claim, after a claim and a fail with max_attempts 1, and after a
\* claim and a complete at hour at
PurgeKinds ==
  {[status |-> st, at |-> 0] : st \in {"pending", "processing", "dead"}}
  \cup {[status |-> "completed", at |-> t] : t \in PurgeHours}

PurgeRowOf(kind, seq) ==
  LET notes == CHOOSE n \in Payloads : n # Poison
      fresh == enqueue(<<>>, seq, notes, NoPrice, "None", NoText, 1)
      claimed == dequeue_item(fresh, seq, CHOOSE w \in Workers : TRUE)
      done == complete(claimed, seq, process_notes(notes, "small"), NoPrice, "None", "small")
  IN CASE kind.status = "pending" -> fresh[seq]
       [] kind.status = "processing" -> claimed[seq]
       [] kind.status = "dead" -> fail(claimed, seq, CHOOSE e \in Errors : TRUE)[seq]
       [] OTHER -> [done[seq] EXCEPT !.completed_at = kind.at]

InitPurge ==
  /\ queue_items \in {[j \in 1..PurgeRows |-> PurgeRowOf(f[j], j)] :
                        f \in [1..PurgeRows -> PurgeKinds]}
  /\ next_id = PurgeRows
  /\ row_lock = [w \in Workers |-> NoId]
  /\ energy = NoStatus
  /\ pc = [w \in Workers |-> "poll"]
  /\ item = [w \in Workers |-> None]
  /\ status = [w \in Workers |-> NoStatus]
  /\ claims = [j \in JobIds |-> 0]
  /\ retries = 0
  /\ policy = EnergyPolicy(price_threshold_eur, fail_open)
  /\ reply = [sent |-> FALSE, purged_count |-> 0, older_than_hours |-> 0]
  /\ gate = NoRequest
  /\ sweeper = "sleep"

\* purge_completed_items: the reply carries purged_count and older_than_hours
PurgeCompleted(h) ==
  /\ queue_items' = purge_completed(queue_items, PurgeNow, h)
  /\ reply' = [sent |-> TRUE,
               purged_count |-> purge_completed_count(queue_items, PurgeNow, h),
               older_than_hours |-> h]
  /\ UNCHANGED <<next_id, row_lock, energy, pc, item, status, claims, retries,
                 policy, gate, sweeper>>

NextPurge == \E h \in PurgeHours : PurgeCompleted(h)

SpecPurge == InitPurge /\ [][NextPurge]_vars

\* ---------------------------------------------------------------- C24
\* C24 (purge boundary).  A purge with older_than_hours = h removes every
\* completed row whose completed_at is strictly before NOW() - h and no
\* other row: every pending, processing and dead row and every completed
\* row with completed_at at or after the cutoff is still there, unchanged;
\* and the count it returns is the number of rows removed.
C24_Step ==
  reply'.sent =>
    LET cutoff == PurgeNow - reply'.older_than_hours
        gone == Ids \ DOMAIN queue_items'
    IN /\ DOMAIN queue_items' \subseteq Ids
       /\ \A j \in Ids :
            IF Row(j).status = "completed" /\ Row(j).completed_at < cutoff
            THEN j \in gone
            ELSE j \notin gone /\ queue_items'[j] = Row(j)
       /\ \A j \in Ids : Row(j).status \in {"pending", "processing", "dead"} => j \notin gone
       /\ reply'.purged_count = Cardinality(gone)

C24_PurgeBoundary == [][C24_Step]_vars

\* a purge removed one row and kept three kinds of rows: one completed
\* exactly at the cutoff, one dead and one other
C24_Witness ==
  /\ reply.sent
  /\ reply.purged_count = 1
  /\ reply.older_than_hours = 1
  /\ \E j \in Ids :
       /\ Row(j).status = "completed"
       /\ Row(j).completed_at = PurgeNow - reply.older_than_hours
  /\ \E j \in Ids : Row(j).status \in {"processing", "dead"}
  /\ Cardinality(Ids) = PurgeRows - 1

\* ---------------------------------------------------------------- C25
\* row j is failed in this step: it leaves processing for pending or dead
C25_Failed(j) ==
  /\ Row(j).status = "processing"
  /\ queue_items'[j].status \in {"pending", "dead"}

\* the failure is a recover_stale sweep (no worker moves), or a worker's
\* fail call
C25_BySweep(j) == Row(j).processing_started_at = "old" /\ pc' = pc

\* C25 (retry path).  A job with max_attempts 3 that fails on its first
\* claim is pending again with attempts 1, and the store hands it out to the
\* next claim.  Every failure writes its own message to last_error (the
\* exception's for a worker's fail, the timeout's for a sweep), and no step
\* other than a failure changes last_error; so when a later attempt
\* completes the job, with result set, last_error is the message of the
\* most recent failure, or null if there was none.
C25_Step ==
  \A j \in Ids :
    /\ (C25_Failed(j) /\ Row(j).attempts = 1 /\ Row(j).max_attempts = default_max_attempts) =>
         /\ queue_items'[j].status = "pending"
         /\ queue_items'[j].attempts = 1
    /\ C25_Failed(j) =>
         queue_items'[j].last_error =
           IF C25_BySweep(j) THEN TimeoutError ELSE CHOOSE e \in Errors : TRUE
    /\ ~C25_Failed(j) => queue_items'[j].last_error = Row(j).last_error
    /\ (Row(j).status # "completed" /\ queue_items'[j].status = "completed") =>
         /\ Row(j).status = "processing"
         /\ queue_items'[j].result \in Results
         /\ Row(j).attempts = 1 => Row(j).last_error = NoText

C25_Claimable ==
  \A j \in Ids :
    (Row(j).status = "pending" /\ Row(j).attempts >= 1 /\ Locked = {}) =>
      /\ Row(j).attempts < Row(j).max_attempts
      /\ SelectForUpdateSkipLocked(queue_items, Locked) \in WithStatus("pending")
      /\ \A w \in Workers : pc[w] = "dequeue" => ENABLED WorkerDequeueSelect(w)

C25_RetryPath == []C25_Claimable /\ [][C25_Step]_vars

\* a job with max_attempts 3 was timed out on its first claim, failed by
\* its worker on the second, and completed on the third: its result is set
\* and last_error is the worker's message, not the older timeout
C25_Witness ==
  \E j \in Ids :
    /\ Row(j).max_attempts = default_max_attempts
    /\ Row(j).status = "completed"
    /\ Row(j).attempts = 3
    /\ Row(j).result \in Results
    /\ Row(j).last_error \in Errors
    /\ \A w \in Workers : ~Held(w)

\* ---------------------------------------------------------------- C26
\* C26 (bounded retries).  claims[j] counts the claims of job j since its
\* enqueue or its latest retry_dead_item.  A job is handed to a worker only
\* while it has been claimed fewer than max_attempts times, each hand-over
\* counts one, and the count goes back (to 0) only by a retry_dead_item of
\* a dead job; so the count never exceeds max_attempts, whatever the order
\* of claims, fail calls and sweeps.
C26_Bounded ==
  \A j \in Ids :
    /\ claims[j] <= Row(j).max_attempts
    /\ Row(j).status = "pending" => claims[j] < Row(j).max_attempts

C26_Step ==
  /\ \A w \in Workers :
       Returned(w) =>
         LET j == item'[w].id
         IN /\ claims[j] < Row(j).max_attempts
            /\ claims'[j] = claims[j] + 1
  /\ \A j \in JobIds :
       /\ claims'[j] > claims[j] => \E w \in Workers : Returned(w) /\ item'[w].id = j
       /\ claims'[j] < claims[j] =>
            /\ Row(j).status = "dead"
            /\ claims'[j] = 0
            /\ retries' = retries + 1

C27_Created(row, id, notes, st, tier, m) ==
  /\ row.status = "pending"
  /\ row.attempts = 0
  /\ row.notes = notes
  /\ row.submitted_energy_price_eur = st.electricity_price_eur
  /\ row.submitted_solar_available = st.solar_available
  /\ row.submitted_llm_tier = tier
  /\ row.max_attempts = m
  /\ row.last_error = NoText
  /\ row.worker_id = NoWorker
  /\ row.processing_started_at = NoTime
  /\ row.result = NoResult

\* C27 (enqueue under store failure).  From every reachable table, an
\* enqueue the store accepts adds exactly one row, pending with attempts 0
\* and the payload, submitted context and max_attempts it was given, and
\* leaves every other row as it was; at the gate it is always possible, is
\* called with the default max_attempts of 3 and is answered "queued".  An
\* enqueue that raises because the store is unavailable leaves the table as
\* it was, and the exception leaves submit_notes.
C27_Rule ==
  /\ \A notes \in Payloads, st \in StatusInputs, m \in 1..default_max_attempts :
       LET id == next_id + 1
           t == enqueue(queue_items, id, notes, st.electricity_price_eur,
                        st.solar_available, llm_tier(st), m)
       IN /\ id \notin Ids
          /\ DOMAIN t = Ids \cup {id}
          /\ \A j \in Ids : t[j] = Row(j)
          /\ C27_Created(t[id], id, notes, st, llm_tier(st), m)
  /\ gate.pc = "enqueue" => ENABLED submit_notes_enqueue

C27_Step ==
  (gate.pc = "enqueue" /\ gate'.pc = "done") =>
    \/ /\ gate'.response = "queued"
       /\ DOMAIN queue_items' = Ids \cup {gate'.queue_item_id}
       /\ gate'.queue_item_id \notin Ids
       /\ \A j \in Ids : queue_items'[j] = Row(j)
       /\ C27_Created(queue_items'[gate'.queue_item_id], gate'.queue_item_id,
                      gate.notes, gate.status, gate.llm_tier, default_max_attempts)
    \/ /\ gate'.response = "error"
       /\ gate'.queue_item_id = NoId
       /\ queue_items' = queue_items
       /\ next_id' = next_id

EnqueueInputs == {-1, 0, 1}

NextConfig ==
  \/ \E notes \in Payloads, m \in EnqueueInputs : Enqueue(notes, m)
  \/ \E w \in Workers :
       \/ WorkerWake(w)
       \/ WorkerPoll(w)
       \/ WorkerEnergy(w)
       \/ WorkerDequeueSelect(w)
       \/ WorkerDequeueCommit(w)
       \/ WorkerComplete(w)
       \/ \E e \in Errors : WorkerFail(w, e)

SpecConfig == Init /\ [][NextConfig]_vars

\* ---------------------------------------------------------------- C28
\* C28 (malformed max_attempts rejected at enqueue).  No job in the store
\* has max_attempts below 1: an enqueue with max_attempts 0 or negative
\* creates no job.
C28_NoMalformedJob == \A j \in Ids : Row(j).max_attempts >= 1

\* ========================================================= api/backend.py
\* The processor the application is built with: BackendAPI.submit_notes,
\* called by _process_notes from POST /notes and from the queue worker.
\* def submit_notes(self, notes: str): the keyword parameters it accepts
BackendParams == {"notes"}

\* BackendAPI.submit_notes called with the keyword arguments kwargs: a call
\* with a keyword the signature does not have raises TypeError; otherwise
\* the pipeline runs and the dict returned has the keys status and
\* tasks_processed
BackendAPI_submit_notes(notes, kwargs) ==
  IF kwargs \subseteq BackendParams
  THEN [raised |-> FALSE, error |-> NoText,
        keys |-> {"status", "tasks_processed"}, status |-> "success"]
  ELSE [raised |-> TRUE, error |-> "TypeError", keys |-> {}, status |-> NoText]

\* asyncio.to_thread(backend.submit_notes, notes, llm_tier=llm_tier)
process_notes_backend(notes, tier) == BackendAPI_submit_notes(notes, {"llm_tier"})

\* {"status": "processed", "llm_tier": ..., "energy": ..., **result}: a
\* status key of the result replaces "processed"
ResponseStatus(result) ==
  IF "status" \in result.keys THEN result.status ELSE "processed"

\* backend.submit_notes(notes) or backend.submit_notes(notes, llm_tier=t),
\* called directly
BackendCall(notes, kwargs) ==
  /\ reply' = [sent |-> TRUE, with_tier |-> "llm_tier" \in kwargs,
               result |-> BackendAPI_submit_notes(notes, kwargs)]
  /\ UNCHANGED <<queue_items, next_id, row_lock, energy, pc, item, status, claims,
                 retries, policy, gate, sweeper>>

\* submit_notes, the branch that processes now: the exception of
\* _process_notes is logged and raised again; a result is stored and merged
\* into the response
submit_notes_process_backend ==
  /\ gate.pc = "process"
  /\ LET r == process_notes_backend(gate.notes, gate.llm_tier)
     IN /\ gate' = [gate EXCEPT !.pc = "done",
                                !.response = IF r.raised THEN "error" ELSE ResponseStatus(r)]
        /\ reply' = [sent |-> TRUE, with_tier |-> TRUE, result |-> r]
  /\ UNCHANGED <<queue_items, next_id, row_lock, energy, pc, item, status, claims,
                 retries, policy, sweeper>>

\* the worker's call of _process_notes, and the complete or fail after it
WorkerProcessBackend(w) ==
  /\ pc[w] = "process"
  /\ LET r == process_notes_backend(item[w].notes, llm_tier(status[w]))
     IN queue_items' =
          IF r.raised
          THEN fail(queue_items, item[w].id, r.error)
          ELSE complete(queue_items, item[w].id,
                        process_notes(item[w].notes, llm_tier(status[w])),
                        status[w].electricity_price_eur,
                        status[w].solar_available, llm_tier(status[w]))
  /\ Restart(w, "poll")
  /\ UNCHANGED <<next_id, row_lock, energy, claims, retries,
               policy, reply, gate, sweeper>>

NextBackend ==
  \/ EnergyChange
  \/ \E notes \in Payloads : submit_notes_fetch(notes)
  \/ submit_notes_decide
  \/ submit_notes_process_backend
  \/ submit_notes_enqueue
  \/ \E notes \in Payloads, kwargs \in SUBSET {"llm_tier"} : BackendCall(notes, kwargs)
  \/ \E w \in Workers :
       \/ WorkerWake(w)
       \/ WorkerPoll(w)
       \/ WorkerEnergy(w)
       \/ WorkerDequeueSelect(w)
       \/ WorkerDequeueCommit(w)
       \/ WorkerProcessBackend(w)

SpecBackend == Init /\ [][NextBackend]_vars

\* ---------------------------------------------------------------- C29
\* C29 (fail-open submission).  With no energy status (the fetched status
\* is None) and fail_open true, every POST /notes that has been answered
\* was processed synchronously: its response status is "processed" and it
\* created no job.
C29_FailOpenProcessed ==
  (gate.pc = "done" /\ ~gate.status.present /\ policy.fail_open) =>
    /\ gate.invoked = 1
    /\ gate.response = "processed"
    /\ Ids = gate.rows_before

\* ---------------------------------------------------------------- C30
\* C30 (processor contract).  Every call BackendAPI.submit_notes(notes,
\* llm_tier=t) returns, and the record it returns has the fields tasks,
\* schedule and tasks_processed.
C30_ProcessorContract ==
  (reply.sent /\ reply.with_tier) =>
    /\ ~reply.result.raised
    /\ {"tasks", "schedule", "tasks_processed"} \subseteq reply.result.keys

\* ====================================================================
\* Scheduler (scheduling/scheduler.py) over the models of
\* planner_ai/models.py.  Times are minutes since midnight of the day.
\* ====================================================================

MaxTasks == 2

focus_start == 540
focus_end == 720
DatetimeMax == 100000

\* models.Task: these are all its declared fields; reading any other
\* attribute of a Task raises AttributeError
Task(title, priority, estimated_duration_min) ==
  [title |-> title, description |-> "", category |-> "general",
   priority |-> priority, estimated_duration_min |-> estimated_duration_min,
   deadline |-> NULL]

HasAttr(obj, name) == name \in DOMAIN obj

\* models.UserPreferences, with its default focus times
UserPreferences == [focus_start |-> focus_start, focus_end |-> focus_end]

\* one element of DailyRoutine.blocked_slots: a Dict[str, str]; keys is the
\* order in which iterating the dict yields its keys
BlockedSlot(start, end, keys) == [start |-> start, end |-> end, keys |-> keys]

DailyRoutine(blocked_slots) == [blocked_slots |-> blocked_slots]

TimeWindow(start, end) == [start |-> start, end |-> end]

\* _focus_window: an empty or inverted window becomes eight hours long
focus_window(start_t, end_t) ==
  IF end_t <= start_t THEN TimeWindow(start_t, start_t + 8 * 60)
  ELSE TimeWindow(start_t, end_t)

\* _overlaps_blocked.  "t1, t2 = slot" iterates the slot: a dict yields its
\* keys, which are strings and not datetime.time objects.  Unpacking a
\* slot that does not have exactly two elements raises ValueError,
\* combining a day with a value that is not a time raises TypeError;
\* either exception ends the walk with False
overlaps_blocked(start, end, routine) ==
  LET slots == routine.blocked_slots
      Iterate(slot) == [i \in 1..Len(slot.keys) |->
                          [kind |-> "str", text |-> slot.keys[i], min |-> NULL]]
      RECURSIVE Walk(_)
      Walk(i) ==
        IF i > Len(slots) THEN FALSE
        ELSE LET it == Iterate(slots[i]) IN
          IF Len(it) # 2 THEN FALSE
          ELSE IF it[1].kind # "time" \/ it[2].kind # "time" THEN FALSE
          ELSE IF it[2].min <= it[1].min THEN Walk(i + 1)
          ELSE IF start < it[2].min /\ end > it[1].min THEN TRUE
          ELSE Walk(i + 1)
  IN Walk(1)

\* _next_available_start: NULL is None
RECURSIVE next_available_from(_, _, _, _, _)
next_available_from(candidate, dur_min, window, routine, occupied_ranges) ==
  LET end == candidate + dur_min
      \* the occupied ranges [candidate, end) overlaps; the loop stops at
      \* the first of them in list order
      hits == {i \in 1..Len(occupied_ranges) :
                 candidate < occupied_ranges[i][2] /\ end > occupied_ranges[i][1]}
      hit == IF hits = {} THEN 0 ELSE CHOOSE i \in hits : \A k \in hits : i <= k
      Max(a, b) == IF a >= b THEN a ELSE b
  IN IF end > window.end THEN NULL
     ELSE IF overlaps_blocked(candidate, end, routine)
       THEN next_available_from(candidate + 15, dur_min, window, routine, occupied_ranges)
     ELSE IF hit # 0
       THEN next_available_from(Max(candidate + 15, occupied_ranges[hit][2]),
                                dur_min, window, routine, occupied_ranges)
     ELSE candidate

next_available_start(cursor, dur_min, window, routine, occupied_ranges) ==
  next_available_from(IF cursor >= window.start THEN cursor ELSE window.start,
                      dur_min, window, routine, occupied_ranges)

\* _order_tasks: sorted by (priority, deadline, -duration); sorted is
\* stable, so tasks with equal keys keep their order
order_tasks(tasks) ==
  LET sort_key(t) ==
        <<t.priority,
          IF t.deadline = NULL THEN DatetimeMax ELSE t.deadline,
          0 - t.estimated_duration_min>>
      Before(a, b) ==
        \/ sort_key(a)[1] < sort_key(b)[1]
        \/ sort_key(a)[1] = sort_key(b)[1] /\ sort_key(a)[2] < sort_key(b)[2]
        \/ /\ sort_key(a)[1] = sort_key(b)[1] /\ sort_key(a)[2] = sort_key(b)[2]
           /\ sort_key(a)[3] < sort_key(b)[3]
      rank(i) == 1 + Cardinality({k \in 1..Len(tasks) :
                        \/ Before(tasks[k], tasks[i])
                        \/ ~Before(tasks[i], tasks[k]) /\ k < i})
  IN [n \in 1..Len(tasks) |-> tasks[CHOOSE i \in 1..Len(tasks) : rank(i) = n]]

\* scheduled.sort(key=lambda x: x.start_time), a stable sort
sort_by_start_time(scheduled) ==
  LET rank(i) == 1 + Cardinality({k \in 1..Len(scheduled) :
                        \/ scheduled[k].start_time < scheduled[i].start_time
                        \/ /\ scheduled[k].start_time = scheduled[i].start_time
                           /\ k < i})
  IN [n \in 1..Len(scheduled) |->
        scheduled[CHOOSE i \in 1..Len(scheduled) : rank(i) = n]]

ScheduledTask(t, start_time, end_time, flexible) ==
  [title |-> t.title, priority |-> t.priority,
   estimated_duration_min |-> t.estimated_duration_min,
   start_time |-> start_time, end_time |-> end_time, flexible |-> flexible]

\* step 3 of schedule: the flexible tasks in order, stopping at the first
\* one that finds no start
RECURSIVE place_flexible(_, _, _, _, _, _)
place_flexible(ordered, cursor, window, routine, scheduled, occupied_ranges) ==
  IF ordered = <<>> THEN scheduled
  ELSE LET t == Head(ordered)
           dur_min == IF t.estimated_duration_min <= 0 THEN 30
                      ELSE t.estimated_duration_min
           start == next_available_start(cursor, dur_min, window, routine,
                                         occupied_ranges)
       IN IF start = NULL THEN scheduled
          ELSE place_flexible(Tail(ordered), start + dur_min, window, routine,
                 Append(scheduled, ScheduledTask(t, start, start + dur_min, TRUE)),
                 Append(occupied_ranges, <<start, start + dur_min>>))

\* step 2 of schedule: every task with a fixed_time at that time
RECURSIVE place_fixed(_, _)
place_fixed(fixed_tasks, scheduled) ==
  IF fixed_tasks = <<>> THEN scheduled
  ELSE LET t == Head(fixed_tasks) IN
    place_fixed(Tail(fixed_tasks),
      Append(scheduled,
             ScheduledTask(t, t.fixed_time,
                           t.fixed_time + t.estimated_duration_min, FALSE)))

\* Scheduler.schedule.  Step 1 reads task_model.fixed_time of every task
\* (line 53): a Task has no such field, so the read raises AttributeError.
schedule(tasks, prefs, routine) ==
  IF tasks = <<>> THEN [raised |-> "", out |-> <<>>]
  ELSE IF \E i \in 1..Len(tasks) : ~HasAttr(tasks[i], "fixed_time")
    THEN [raised |-> "AttributeError", out |-> <<>>]
  ELSE
    LET window == focus_window(prefs.focus_start, prefs.focus_end)
        fixed_tasks == SelectSeq(tasks, LAMBDA t : t.fixed_time # NULL)
        flexible_tasks == SelectSeq(tasks, LAMBDA t : t.fixed_time = NULL)
        fixed == place_fixed(fixed_tasks, <<>>)
        occupied == [i \in 1..Len(fixed) |-> <<fixed[i].start_time, fixed[i].end_time>>]
        scheduled == place_flexible(order_tasks(flexible_tasks), window.start,
                                    window, routine, fixed, occupied)
    IN [raised |-> "", out |-> sort_by_start_time(scheduled)]

Priorities == {1, 3}
Durations == {30, 90, 200}

TaskLists ==
  UNION {{[i \in 1..n |-> Task(<<"A", "B", "C">>[i], p[i], d[i])] :
            p \in [1..n -> Priorities], d \in [1..n -> Durations]} :
         n \in 0..MaxTasks}

Routines ==
  {DailyRoutine(<<>>),
   DailyRoutine(<<BlockedSlot(540, 600, <<"start", "end">>)>>),
   DailyRoutine(<<BlockedSlot(540, 570, <<"start", "end", "reason">>)>>)}

InitSchedule ==
  /\ queue_items = <<>>
  /\ next_id = 0
  /\ row_lock = [w \in Workers |-> NoId]
  /\ energy = NoStatus
  /\ pc = [w \in Workers |-> "poll"]
  /\ item = [w \in Workers |-> None]
  /\ status = [w \in Workers |-> NoStatus]
  /\ claims = [j \in JobIds |-> 0]
  /\ retries = 0
  /\ policy = EnergyPolicy(price_threshold_eur, fail_open)
  /\ reply \in {[call |-> "", tasks |-> ts, routine |-> r, raised |-> "",
                 out |-> <<>>, cursor |-> NULL, dur_min |-> NULL,
                 occupied_ranges |-> <<>>, start |-> NULL] :
                ts \in TaskLists, r \in Routines}
  /\ gate = NoRequest
  /\ sweeper = "sleep"

\* scheduler.schedule(tasks) with the stored preferences and routine
ScheduleCall ==
  LET res == schedule(reply.tasks, UserPreferences, reply.routine) IN
  /\ reply' = [reply EXCEPT !.call = "schedule", !.raised = res.raised,
                            !.out = res.out]
  /\ UNCHANGED <<queue_items, next_id, row_lock, energy, pc, item, status,
                 claims, retries, policy, gate, sweeper>>

\* scheduler._next_available_start(cursor, dur_min, window, routine, occupied)
NextAvailableStartCall(cursor, dur_min, occupied_ranges) ==
  /\ reply' = [reply EXCEPT
       !.call = "_next_available_start", !.cursor = cursor,
       !.dur_min = dur_min, !.occupied_ranges = occupied_ranges,
       !.start = next_available_start(cursor, dur_min,
                   focus_window(UserPreferences.focus_start,
                                UserPreferences.focus_end),
                   reply.routine, occupied_ranges)]
  /\ UNCHANGED <<queue_items, next_id, row_lock, energy, pc, item, status,
                 claims, retries, policy, gate, sweeper>>

NextSchedule ==
  \/ ScheduleCall
  \/ \E c \in {540, 570}, d \in Durations, o \in {<<>>, << <<540, 570>> >>} :
       NextAvailableStartCall(c, d, o)

SpecSchedule == InitSchedule /\ [][NextSchedule]_vars

\* ---------------------------------------------------------------- C31
\* the flexible task that _order_tasks puts first
C31_First == order_tasks(reply.tasks)[1]

C31_Window == focus_window(UserPreferences.focus_start, UserPreferences.focus_end)

\* C31 (scheduler places what fits).  schedule, called on a non-empty list
\* of flexible tasks whose highest-priority task fits in the focus window,
\* returns a non-empty list, and every task of it lies inside the window
\* and lasts exactly its duration.
C31_SchedulesWhatFits ==
  (/\ reply.call = "schedule"
   /\ reply.tasks # <<>>
   /\ C31_First.estimated_duration_min <= C31_Window.end - C31_Window.start) =>
    /\ reply.raised = ""
    /\ reply.out # <<>>
    /\ \A i \in 1..Len(reply.out) :
         /\ C31_Window.start <= reply.out[i].start_time
         /\ reply.out[i].start_time < reply.out[i].end_time
         /\ reply.out[i].end_time <= C31_Window.end
         /\ reply.out[i].end_time - reply.out[i].start_time =
              reply.out[i].estimated_duration_min

\* ---------------------------------------------------------------- C32
\* the blocked slots of the routine as intervals
C32_Blocked(start, end) ==
  \E i \in 1..Len(reply.routine.blocked_slots) :
    LET s == reply.routine.blocked_slots[i] IN
      s.start < s.end /\ start < s.end /\ end > s.start

C32_Occupied(start, end, ranges) ==
  \E i \in 1..Len(ranges) : start < ranges[i][2] /\ end > ranges[i][1]

C33_AttemptsBound ==
  \A j \in Ids :
    Row(j).max_attempts >= 1 =>
      /\ 0 <= Row(j).attempts
      /\ Row(j).attempts <= Row(j).max_attempts
      /\ Row(j).status = "pending" => Row(j).attempts < Row(j).max_attempts

\* a job that failed its first of two attempts waits in pending with
\* attempts 1, and another job has used all its attempts
C33_Witness ==
  \E j, k \in Ids :
    /\ Row(j).status = "pending"
    /\ Row(j).attempts = 1
    /\ Row(j).max_attempts = 2
    /\ Row(j).last_error \in Errors
    /\ Row(k).attempts = Row(k).max_attempts
    /\ Row(k).status \in {"dead", "processing"}


\* ---------------------------------------------------------------- C34
\* worker w still holds a job that, after a stale recovery, another worker
\* has claimed: the row is in processing and names the other worker
C34_Displaced(w) ==
  /\ Held(w)
  /\ item[w].id \in WithStatus("processing")
  /\ Row(item[w].id).worker_id \in Workers \ {w}

\* C34 (displaced worker).  When a worker whose job was returned to pending
\* by recoverStale and then claimed by a second worker calls complete or
\* fail for it, the row stays as it is: in processing, held by the second
\* worker.
C34_Step ==
  \A w \in Workers :
    (C34_Displaced(w) /\ Resolves(w)) =>
      queue_items'[item[w].id] = queue_items[item[w].id]

C34_DisplacedCannotResolve == [][C34_Step]_vars


\* ====================================================================
\* The worker iteration after the processor has returned: storing the
\* tasks and the schedule, the calendar sync, and complete(), all inside
\* the try whose except clause calls fail().
\* ====================================================================

\* result = await _process_notes(...) returns: the worker goes on to the
\* post-processing steps with the result bound
WorkerProcessReturns(w) ==
  /\ pc[w] = "process"
  /\ item[w].notes # Poison
  /\ Goto(w, "post")
  /\ UNCHANGED <<queue_items, next_id, row_lock, energy, item, status, claims,
                 retries, policy, reply, gate, sweeper>>

\* the post-processing steps raise nothing and complete() is called
WorkerPostComplete(w) ==
  /\ pc[w] = "post"
  /\ queue_items' = complete(queue_items, item[w].id,
                             process_notes(item[w].notes, llm_tier(status[w])),
                             status[w].electricity_price_eur,
                             status[w].solar_available, llm_tier(status[w]))
  /\ Restart(w, "poll")
  /\ UNCHANGED <<next_id, row_lock, energy, claims, retries,
                 policy, reply, gate, sweeper>>

\* storing the tasks or the schedule raises (a task of the result that is
\* not a dict), or complete() raises before its query (json.dumps of a
\* result that holds a datetime): the except clause of the same try calls
\* fail(item.id, str(e)).  In main.py the except clause goes on to call
\* complete() for the row fail has just moved out of processing, which
\* changes nothing.
WorkerPostRaises(w, e) ==
  /\ pc[w] = "post"
  /\ queue_items' = fail(queue_items, item[w].id, e)
  /\ Restart(w, "poll")
  /\ UNCHANGED <<next_id, row_lock, energy, claims, retries,
                 policy, reply, gate, sweeper>>

\* main.py with calendar credentials and a schedule in the result: the
\* sync loop "for item in result['schedule']" rebinds item to a dict, so
\* item.id raises AttributeError in the call of complete() and again in
\* the except clause before fail(); the outer except clause sleeps
WorkerPostItemRebound(w) ==
  /\ pc[w] = "post"
  /\ Restart(w, "sleep")
  /\ UNCHANGED <<queue_items, next_id, row_lock, energy, claims, retries,
                 policy, reply, gate, sweeper>>

NextPost ==
  \/ EnergyChange
  \/ Tick
  \/ \E notes \in Payloads, m \in 1..MaxAttemptsBound : Enqueue(notes, m)
  \/ SweeperRecover
  \/ \E w \in Workers :
       \/ WorkerWake(w)
       \/ WorkerPoll(w)
       \/ WorkerEnergy(w)
       \/ WorkerDequeueSelect(w)
       \/ WorkerDequeueCommit(w)
       \/ WorkerProcessReturns(w)
       \/ WorkerPostComplete(w)
       \/ WorkerPostItemRebound(w)
       \/ \E e \in Errors : WorkerFail(w, e)
       \/ \E e \in Errors : WorkerPostRaises(w, e)

SpecPost == Init /\ [][NextPost]_vars

\* ---------------------------------------------------------------- C35
\* C35 (success is never reported as failure).  In an iteration whose
\* processor has returned, the worker ends the iteration by calling
\* complete for the job with the result, and does not call fail: the
\* table after the iteration is the table complete leaves, also when a
\* post-processing step or complete itself raises.
C35_Step ==
  \A w \in Workers :
    (pc[w] = "post" /\ pc'[w] # "post") =>
      queue_items' = complete(queue_items, item[w].id,
                              process_notes(item[w].notes, llm_tier(status[w])),
                              status[w].electricity_price_eur,
                              status[w].solar_available, llm_tier(status[w]))

C35_SuccessNeverFails == [][C35_Step]_vars


\* ====================================================================
\* POST /notes and the in-memory queue worker over the in-memory state of
\* api/state.py: recent_tasks and the legacy notes_queue.  In this
\* specification `reply` holds that state, with the number of requests
\* received and the notes the queue worker has handed to the processor.
\* ====================================================================

MaxNotes == 3

recent_tasks_maxlen == 100

QueueWorker == 1

USE_DURABLE_QUEUE == reply.use_durable
recent_tasks == reply.recent_tasks
notes_queue == reply.notes_queue

\* deque(maxlen=...).appendleft: the newest first, the oldest dropped
appendleft(deque, x) ==
  LET d == <<x>> \o deque
  IN IF Len(d) > recent_tasks_maxlen THEN SubSeq(d, 1, recent_tasks_maxlen) ELSE d

\* the task a result is stored as (the result is opaque)
TaskOf(result, n) == [result |-> result, n |-> n]

\* asyncio.Queue.put and get: a new entry goes to the end, the entry
\* taken is the one at the front
Queue_put(queue, x) == Append(queue, x)

Queue_get_Newest(queue) ==
  [value |-> queue[Len(queue)], queue |-> SubSeq(queue, 1, Len(queue) - 1)]

Queue_get(queue) == [value |-> Head(queue), queue |-> Tail(queue)]

InitMemory ==
  /\ queue_items = <<>>
  /\ next_id = 0
  /\ row_lock = [w \in Workers |-> NoId]
  /\ energy \in SignalValues
  /\ pc = [w \in Workers |-> IF w = QueueWorker THEN "qw_top" ELSE "poll"]
  /\ item = [w \in Workers |-> None]
  /\ status = [w \in Workers |-> NoStatus]
  /\ claims = [j \in JobIds |-> 0]
  /\ retries = 0
  /\ policy = EnergyPolicy(price_threshold_eur, fail_open)
  /\ reply \in {[use_durable |-> u, recent_tasks |-> <<>>, notes_queue |-> <<>>,
                  submitted |-> 0, handed |-> <<>>] : u \in BOOLEAN}
  /\ gate = NoRequest
  /\ sweeper = "sleep"

\* POST /notes arrives: status = await _get_energy_status()
submit_notes_start(notes) ==
  /\ gate.pc \in {"idle", "done"}
  /\ reply.submitted < MaxNotes
  /\ next_id < MaxJobs
  /\ gate' = [NoRequest EXCEPT !.pc = "fetched", !.notes = notes, !.status = energy,
                               !.llm_tier = llm_tier(energy), !.fetched = 1,
                               !.rows_before = Ids]
  /\ reply' = [reply EXCEPT !.submitted = @ + 1]
  /\ UNCHANGED <<queue_items, next_id, row_lock, energy, pc, item, status, claims,
                 retries, policy, sweeper>>

\* _process_notes returns: the tasks go to recent_tasks and the request
\* answers "processed"
submit_notes_returns ==
  /\ gate.pc = "process"
  /\ gate.notes # Poison
  /\ reply' = [reply EXCEPT !.recent_tasks =
                 appendleft(@, TaskOf(process_notes(gate.notes, gate.llm_tier),
                                      reply.submitted))]
  /\ gate' = [gate EXCEPT !.pc = "done", !.response = "processed"]
  /\ UNCHANGED <<queue_items, next_id, row_lock, energy, pc, item, status, claims,
                 retries, policy, sweeper>>

\* a submit_notes that defers the notes whose processing raised
submit_notes_raises_Defers ==
  /\ gate.pc = "process"
  /\ reply' = [reply EXCEPT !.notes_queue =
                 Queue_put(@, [n |-> reply.submitted, notes |-> gate.notes])]
  /\ gate' = [gate EXCEPT !.pc = "done", !.response = "error"]
  /\ UNCHANGED <<queue_items, next_id, row_lock, energy, pc, item, status, claims,
                 retries, policy, sweeper>>

\* _process_notes raises: "except Exception: ... raise" lets the exception
\* leave submit_notes
submit_notes_raises ==
  /\ gate.pc = "process"
  /\ gate' = [gate EXCEPT !.pc = "done", !.response = "error"]
  /\ UNCHANGED <<queue_items, next_id, row_lock, energy, pc, item, status, claims,
                 retries, policy, reply, sweeper>>

\* if USE_DURABLE_QUEUE and durable_queue is not None: enqueue
submit_notes_enqueue_durable ==
  /\ USE_DURABLE_QUEUE
  /\ submit_notes_enqueue

\* otherwise: await state.notes_queue.put(payload.notes); answers "queued"
submit_notes_put ==
  /\ ~USE_DURABLE_QUEUE
  /\ gate.pc = "enqueue"
  /\ reply' = [reply EXCEPT !.notes_queue =
                 Queue_put(@, [n |-> reply.submitted, notes |-> gate.notes])]
  /\ gate' = [gate EXCEPT !.pc = "done", !.response = "queued"]
  /\ UNCHANGED <<queue_items, next_id, row_lock, energy, pc, item, status, claims,
                 retries, policy, sweeper>>

\* _queue_worker: if state.notes_queue.empty(): sleep; continue
QueueWorkerEmpty ==
  /\ ~USE_DURABLE_QUEUE
  /\ pc[QueueWorker] = "qw_top"
  /\ notes_queue = <<>>
  /\ Goto(QueueWorker, "qw_sleep")
  /\ UNCHANGED <<queue_items, next_id, row_lock, energy, item, status, claims,
                 retries, policy, reply, gate, sweeper>>

QueueWorkerWake ==
  /\ pc[QueueWorker] = "qw_sleep"
  /\ Goto(QueueWorker, "qw_top")
  /\ UNCHANGED <<queue_items, next_id, row_lock, energy, item, status, claims,
                 retries, policy, reply, gate, sweeper>>

\* status = await _get_energy_status();
\* if not policy.should_process_now(status): sleep; continue
QueueWorkerEnergy ==
  /\ ~USE_DURABLE_QUEUE
  /\ pc[QueueWorker] = "qw_top"
  /\ notes_queue # <<>>
  /\ status' = [status EXCEPT ![QueueWorker] = energy]
  /\ IF should_process_now(policy.price_threshold_eur, policy.fail_open, energy)
     THEN Goto(QueueWorker, "qw_get")
     ELSE Goto(QueueWorker, "qw_sleep")
  /\ UNCHANGED <<queue_items, next_id, row_lock, energy, item, claims,
                 retries, policy, reply, gate, sweeper>>

\* notes = await state.notes_queue.get(), and the call of _process_notes
\* that follows it
QueueWorkerGet ==
  /\ pc[QueueWorker] = "qw_get"
  /\ notes_queue # <<>>
  /\ LET got == Queue_get(notes_queue) IN
       /\ item' = [item EXCEPT ![QueueWorker] =
                     [held |-> TRUE, id |-> got.value.n, notes |-> got.value.notes]]
       /\ reply' = [reply EXCEPT !.notes_queue = got.queue,
                                 !.handed = Append(@, got.value.n)]
  /\ Goto(QueueWorker, "qw_process")
  /\ UNCHANGED <<queue_items, next_id, row_lock, energy, status, claims,
                 retries, policy, gate, sweeper>>

\* _process_notes returns: the tasks go to recent_tasks; task_done()
QueueWorkerReturns ==
  /\ pc[QueueWorker] = "qw_process"
  /\ item[QueueWorker].notes # Poison
  /\ reply' = [reply EXCEPT !.recent_tasks =
                 appendleft(@, TaskOf(process_notes(item[QueueWorker].notes,
                                                    llm_tier(status[QueueWorker])),
                                      item[QueueWorker].id))]
  /\ Restart(QueueWorker, "qw_top")
  /\ UNCHANGED <<queue_items, next_id, row_lock, energy, claims,
                 retries, policy, gate, sweeper>>

\* _process_notes raises: "except Exception" logs it; task_done()
QueueWorkerRaises ==
  /\ pc[QueueWorker] = "qw_process"
  /\ Restart(QueueWorker, "qw_top")
  /\ UNCHANGED <<queue_items, next_id, row_lock, energy, claims,
                 retries, policy, reply, gate, sweeper>>

NextMemory ==
  \/ EnergyChange
  \/ \E notes \in Payloads : submit_notes_start(notes)
  \/ submit_notes_decide
  \/ submit_notes_returns
  \/ submit_notes_raises
  \/ submit_notes_enqueue_durable
  \/ submit_notes_put
  \/ QueueWorkerEmpty
  \/ QueueWorkerWake
  \/ QueueWorkerEnergy
  \/ QueueWorkerGet
  \/ QueueWorkerReturns
  \/ QueueWorkerRaises

SpecMemory == InitMemory /\ [][NextMemory]_vars

\* ---------------------------------------------------------------- C36
\* C36 (failed immediate processing is not deferred).  When the gate has
\* decided to process now and the processor raises, the request ends with
\* the error and the step changes neither the durable queue nor the
\* in-memory queue nor recent_tasks.
C36_Step ==
  (gate.pc = "process" /\ gate'.pc = "done" /\ gate'.response # "processed") =>
    /\ gate'.response = "error"
    /\ queue_items' = queue_items
    /\ notes_queue' = notes_queue
    /\ recent_tasks' = recent_tasks

\* a request whose immediate processing failed has created no job
C36_Rule ==
  (gate.pc = "done" /\ gate.invoked = 1) =>
    /\ gate.response \in {"processed", "error"}
    /\ Ids = gate.rows_before
    /\ \A i \in 1..Len(notes_queue) : notes_queue[i].n # reply.submitted
    /\ \A i \in 1..Len(reply.handed) : reply.handed[i] # reply.submitted

C36_FailedNotDeferred == []C36_Rule /\ [][C36_Step]_vars

\* a request was processed at once and failed, while an earlier deferred
\* note is still in the in-memory queue
C36_Witness ==
  /\ gate.pc = "done"
  /\ gate.invoked = 1
  /\ gate.response = "error"
  /\ Len(notes_queue) = 1
  /\ notes_queue[1].n < reply.submitted

\* ---------------------------------------------------------------- C37
\* the notes put on the in-memory queue so far, by request number
C37_Waiting == {notes_queue[i].n : i \in 1..Len(notes_queue)}

C37_Handed == {reply.handed[i] : i \in 1..Len(reply.handed)}

\* C37 (in-memory fallback).  With the durable queue disabled, the queue
\* worker hands the deferred notes to the processor in the order they were
\* put (FIFO), each at most once, and only in an iteration whose energy
\* status lets the policy process now; a note whose processing raised is
\* off the queue and is not put back, and the loop goes on.
C37_Rule ==
  ~USE_DURABLE_QUEUE =>
    /\ \A i, k \in 1..Len(reply.handed) : i < k => reply.handed[i] < reply.handed[k]
    /\ \A i, k \in 1..Len(notes_queue) : i < k => notes_queue[i].n < notes_queue[k].n
    /\ \A h \in C37_Handed, q \in C37_Waiting : h < q
    /\ pc[QueueWorker] \in {"qw_get", "qw_process"} =>
         should_process_now(policy.price_threshold_eur, policy.fail_open,
                            status[QueueWorker])

C37_Step ==
  /\ Len(reply'.handed) > Len(reply.handed) =>
       /\ pc[QueueWorker] = "qw_get"
       /\ reply'.handed = Append(reply.handed, notes_queue[1].n)
       /\ notes_queue' = Tail(notes_queue)
  /\ (pc[QueueWorker] = "qw_process" /\ pc'[QueueWorker] # "qw_process") =>
       /\ notes_queue' = notes_queue
       /\ pc'[QueueWorker] = "qw_top"

C37_InMemoryFallback == []C37_Rule /\ [][C37_Step]_vars

\* two deferred notes were handed over in order; the first raised and is
\* gone, the second was processed, and the queue is empty
C37_Witness ==
  /\ ~USE_DURABLE_QUEUE
  /\ Len(reply.handed) = 2
  /\ notes_queue = <<>>
  /\ pc[QueueWorker] = "qw_top"
  /\ Len(recent_tasks) = 1
  /\ recent_tasks[1].n = reply.handed[2]


\* ====================================================================
\* The stale-recovery sweeper on a clock.  Time is in seconds; in this
\* specification `reply` holds the clock, the time the sweeper's sleep
\* ends, and the age at which the last row was recovered, and a row's
\* processing_started_at is the time of its claim.
\* ====================================================================

MaxTime == 480

STALE_RECOVERY_INTERVAL_S == 60

\* the steps by which the clock is observed to advance
TimeSteps == {20, 30, 60}

\* the rows in 'processing' with processing_started_at < now - timeout
StaleRowsAt(table, now, timeout) ==
  {j \in DOMAIN table : /\ table[j].status = "processing"
                        /\ table[j].processing_started_at < now - timeout * 60}

\* recover_stale(timeout_minutes) called at time now
recover_stale_at(table, now, timeout) ==
  [j \in DOMAIN table |->
     IF j \in StaleRowsAt(table, now, timeout)
     THEN RetryOrDead(table[j], TimeoutError)
     ELSE table[j]]

InitSweep ==
  /\ queue_items \in {<<NewRow("note", NoPrice, "None", NoText, m, 1)>> :
                         m \in 1..MaxAttemptsBound}
  /\ next_id = 1
  /\ row_lock = [w \in Workers |-> NoId]
  /\ energy = NoStatus
  /\ pc = [w \in Workers |-> "poll"]
  /\ item = [w \in Workers |-> None]
  /\ status = [w \in Workers |-> NoStatus]
  /\ claims = [j \in JobIds |-> 0]
  /\ retries = 0
  /\ policy = EnergyPolicy(price_threshold_eur, fail_open)
  /\ reply = [now |-> 0, wake_at |-> STALE_RECOVERY_INTERVAL_S, age |-> NULL]
  /\ gate = NoRequest
  /\ sweeper = "sleep"

\* time passes by d seconds while the sweeper sleeps, up to the end of
\* its sleep
Advance(d) ==
  /\ sweeper = "sleep"
  /\ reply.now + d <= reply.wake_at
  /\ reply.now + d <= MaxTime
  /\ reply' = [reply EXCEPT !.now = @ + d]
  /\ UNCHANGED <<queue_items, next_id, row_lock, energy, pc, item, status, claims,
                 retries, policy, gate, sweeper>>

\* a worker claims the pending row and then neither completes nor fails it
ClaimAt(w, j) ==
  /\ j \in WithStatus("pending")
  /\ queue_items' = [dequeue_item(queue_items, j, w) EXCEPT
                       ![j].processing_started_at = reply.now]
  /\ UNCHANGED <<next_id, row_lock, energy, pc, item, status, claims,
                 retries, policy, reply, gate, sweeper>>

\* await asyncio.sleep(STALE_RECOVERY_INTERVAL_S) ends
SweeperWakeAt ==
  /\ sweeper = "sleep"
  /\ reply.now = reply.wake_at
  /\ sweeper' = "recover"
  /\ UNCHANGED <<queue_items, next_id, row_lock, energy, pc, item, status, claims,
                 retries, policy, reply, gate>>

\* a sweeper that sleeps two intervals between its calls
SweeperSweepAt_SleepsTwice ==
  /\ sweeper = "recover"
  /\ queue_items' = recover_stale_at(queue_items, reply.now, timeout_minutes)
  /\ reply' = [reply EXCEPT
       !.wake_at = reply.now + 2 * STALE_RECOVERY_INTERVAL_S,
       !.age = IF StaleRowsAt(queue_items, reply.now, timeout_minutes) = {} THEN @
               ELSE reply.now - queue_items[1].processing_started_at]
  /\ sweeper' = "sleep"
  /\ UNCHANGED <<next_id, row_lock, energy, pc, item, status, claims,
                 retries, policy, gate>>

\* recover_stale(timeout_minutes=5), then the next sleep of one interval
SweeperSweepAt ==
  /\ sweeper = "recover"
  /\ queue_items' = recover_stale_at(queue_items, reply.now, timeout_minutes)
  /\ reply' = [reply EXCEPT
       !.wake_at = reply.now + STALE_RECOVERY_INTERVAL_S,
       !.age = IF StaleRowsAt(queue_items, reply.now, timeout_minutes) = {} THEN @
               ELSE reply.now - queue_items[1].processing_started_at]
  /\ sweeper' = "sleep"
  /\ UNCHANGED <<next_id, row_lock, energy, pc, item, status, claims,
                 retries, policy, gate>>

NextSweep ==
  \/ \E d \in TimeSteps : Advance(d)
  \/ \E w \in Workers : ClaimAt(w, 1)
  \/ SweeperWakeAt
  \/ SweeperSweepAt

SpecSweep == InitSweep /\ [][NextSweep]_vars

\* ---------------------------------------------------------------- C38
\* C38 (bounded recovery delay).  With the sweeper calling recover_stale
\* (timeout 5 minutes) once every sweep interval of 60 s, a job that stays
\* in processing is never there later than timeout + one interval after
\* its processing_started_at, and the sweeper moves it to pending or dead
\* only when more than the timeout has passed since then.
C38_Bound == timeout_minutes * 60 + STALE_RECOVERY_INTERVAL_S

C38_Rule ==
  \A j \in WithStatus("processing") :
    reply.now - Row(j).processing_started_at <= C38_Bound

C38_Step ==
  \A j \in WithStatus("processing") :
    queue_items'[j].status # "processing" =>
      /\ queue_items'[j].status \in {"pending", "dead"}
      /\ reply.now - Row(j).processing_started_at >= timeout_minutes * 60
      /\ reply.now - Row(j).processing_started_at <= C38_Bound

C38_BoundedRecoveryDelay == []C38_Rule /\ [][C38_Step]_vars

\* a job claimed right at a sweep was recovered exactly timeout + one
\* interval later
C38_Witness ==
  /\ reply.age = C38_Bound
  /\ Row(1).status \in {"pending", "dead"}
  /\ Row(1).last_error = TimeoutError


\* ---------------------------------------------------------------- C39
\* the submitted context of a row
C39_Submitted(row) ==
  <<row.submitted_energy_price_eur, row.submitted_solar_available,
    row.submitted_llm_tier>>

\* row j is completed in this step by worker w with the context of the
\* status w fetched for its gating decision
C39_CompletedFrom(j, w) ==
  /\ Held(w) /\ ~Held(w)'
  /\ item[w].id = j
  /\ status[w] \in Passing
  /\ queue_items'[j].result = process_notes(Row(j).notes, llm_tier(status[w]))
  /\ queue_items'[j].processed_llm_tier = llm_tier(status[w])
  /\ queue_items'[j].processed_energy_price_eur = status[w].electricity_price_eur
  /\ queue_items'[j].processed_solar_available = status[w].solar_available

\* C39 (processing-time snapshot).  A worker holds one energy status per
\* iteration, the one its gating decision was taken on; the tier given to
\* the processor and the price, renewable flag and tier recorded by
\* complete are those of that status, and no claim, complete, fail or
\* sweep changes the submitted context of a job.
C39_Step ==
  /\ \A w \in Workers :
       status'[w] # status[w] =>
         \/ pc[w] = "energy" /\ pc'[w] = "dequeue" /\ status'[w] = energy
              /\ should_process_now(policy.price_threshold_eur,
                                    policy.fail_open, energy)
         \/ status'[w] = NoStatus /\ pc'[w] \in {"poll", "sleep"}
  /\ \A j \in Ids :
       /\ C39_Submitted(queue_items'[j]) = C39_Submitted(queue_items[j])
       /\ (Row(j).status # "completed" /\ queue_items'[j].status = "completed") =>
            \E w \in Workers : C39_CompletedFrom(j, w)

C39_SnapshotContext == [][C39_Step]_vars

\* a job deferred under a high price without solar (tier small) was
\* completed under solar power with tier large
C39_Witness ==
  \E j \in Ids :
    /\ Row(j).status = "completed"
    /\ Row(j).submitted_llm_tier = "small"
    /\ Row(j).submitted_solar_available = "False"
    /\ Row(j).submitted_energy_price_eur = 90
    /\ Row(j).processed_llm_tier = "large"
    /\ Row(j).processed_solar_available = "True"
    /\ Row(j).result = process_notes(Row(j).notes, "large")

====
